---------------------------- MODULE Spec2Model ----------------------------
(***************************************************************************)
(* Monte Carlo Win/Place/Show estimator of the giraffe race bot.           *)
(*                                                                         *)
(* 32-bit unsigned words are pairs <<hi, lo>> of 16-bit halves, so that    *)
(* every intermediate value stays inside TLC's 32-bit integer range and    *)
(* the wraparound of >>> 0 and Math.imul is explicit.                      *)
(* Credits are exact rationals kept as integer multiples of 1/UNIT, where  *)
(* UNIT = 60 = lcm(1..6) is divisible by every band size.                  *)
(***************************************************************************)
EXTENDS Integers, Sequences, FiniteSets, TLC

\* ------------------------------------------------------------------------
\* Program constants
\* ------------------------------------------------------------------------
LANE_COUNT == 6
SPEED_RANGE == 10
TRACK_LENGTH == 1000
FINISH_OVERSHOOT == 10
MAX_TICKS == 500
FINISH_TIME_PRECISION == 10000
WARMUP == 20
BPS_SCALE == 10000
PLACE_SPOTS == 2
SHOW_SPOTS == 3
UNFINISHED == -1

\* Lanes are indexed 1..6 here (lane k of the model is lane k-1 of the code).
Lanes == 1..LANE_COUNT

\* One whole credit, in tally units.
UNIT == 3 * 4 * 5

\* ------------------------------------------------------------------------
\* 32-bit words
\* ------------------------------------------------------------------------
H16 == 256 * 256

Pow2(k) == CASE k = 0 -> 1 [] k = 1 -> 2 [] k = 2 -> 4 [] k = 3 -> 8
             [] k = 4 -> 16 [] k = 5 -> 32 [] k = 6 -> 64 [] k = 7 -> 128
             [] k = 8 -> 256 [] k = 9 -> 512 [] k = 10 -> 1024
             [] k = 11 -> 2048 [] k = 12 -> 4096 [] k = 13 -> 8192
             [] k = 14 -> 16384 [] k = 15 -> 32768 [] k = 16 -> 65536

\* XOR of two bits, two nibbles (by table), two halves, two words.
XorBit(a, b) == IF a = b THEN 0 ELSE 1

XorNibbleOf(a, b) ==
    XorBit(a % 2, b % 2)
  + 2 * XorBit((a \div 2) % 2, (b \div 2) % 2)
  + 4 * XorBit((a \div 4) % 2, (b \div 4) % 2)
  + 8 * XorBit(a \div 8, b \div 8)

XorNibble == [a \in 0..15 |-> [b \in 0..15 |-> XorNibbleOf(a, b)]]

Xor16(a, b) ==
    XorNibble[a % 16][b % 16]
  + 16 * XorNibble[(a \div 16) % 16][(b \div 16) % 16]
  + 256 * XorNibble[(a \div 256) % 16][(b \div 256) % 16]
  + 4096 * XorNibble[a \div 4096][b \div 4096]

Xor32(a, b) == << Xor16(a[1], b[1]), Xor16(a[2], b[2]) >>

\* (w << k) >>> 0 for 0 < k < 16
Shl32(w, k) ==
    << (w[1] % Pow2(16 - k)) * Pow2(k) + (w[2] \div Pow2(16 - k)),
       (w[2] % Pow2(16 - k)) * Pow2(k) >>

\* w >>> k for 0 < k < 32
Shr32(w, k) ==
    IF k >= 16
    THEN << 0, w[1] \div Pow2(k - 16) >>
    ELSE << w[1] \div Pow2(k),
            (w[1] % Pow2(k)) * Pow2(16 - k) + (w[2] \div Pow2(k)) >>

\* (a + b) >>> 0
Add32(a, b) ==
    LET lo == a[2] + b[2]
    IN  << (a[1] + b[1] + (lo \div H16)) % H16, lo % H16 >>

\* Full 32-bit product of two 16-bit halves, as a word.
Mul16(x, y) ==
    LET p1  == (x \div 256) * y
        p0  == (x % 256) * y
        mid == (p1 % 256) * 256 + (p0 % H16)
    IN  << ((p1 \div 256) + (p0 \div H16) + (mid \div H16)) % H16, mid % H16 >>

\* Math.imul(a, b) >>> 0 : the low 32 bits of the product
Imul(a, b) ==
    LET ll == Mul16(a[2], b[2])
        hl == Mul16(a[1], b[2])[2]
        lh == Mul16(a[2], b[1])[2]
    IN  << (ll[1] + hl + lh) % H16, ll[2] >>

\* w % n for 1 < n <= 10000
Mod32(w, n) == ((w[1] % n) * (H16 % n) + w[2]) % n

IsZero32(w) == w[1] = 0 /\ w[2] = 0

\* x || fallback  on an unsigned word
OrElse(w, fallback) == IF IsZero32(w) THEN fallback ELSE w

\* The word of a natural number below 2^31
Word(n) == << n \div H16, n % H16 >>

\* Literals of the source
K_GOLDEN  == << 40503, 31161 >>   \* 0x9e3779b9
K_MIX1    == << 34283, 51819 >>   \* 0x85ebca6b
K_MIX2    == << 49842, 44597 >>   \* 0xc2b2ae35
K_MIX3    == << 10196, 60207 >>   \* 0x27d4eb2f
K_SEED0   == << 4660, 22136 >>    \* 0x12345678
K_SEED1   == << 39612, 57072 >>   \* 0x9abcdef0
K_SEED2   == << 57005, 48879 >>   \* 0xdeadbeef
K_SEED3   == << 51966, 47806 >>   \* 0xcafebabe

\* ------------------------------------------------------------------------
\* FastRng (xorshift128)
\* ------------------------------------------------------------------------
\* next(): the new state; the value returned is the new s0.
\* (t1, t2 and the other intermediate values below are bound as members of
\* singleton sets, so that each is computed once wherever the operator is used)
RngNext(g) ==
    CHOOSE n \in
        { [s0 |-> Xor32(Xor32(t2, g.s0), Shr32(g.s0, 19)),
           s1 |-> g.s0, s2 |-> g.s1, s3 |-> g.s2] :
            t2 \in { Xor32(t1, Shr32(t1, 8)) :
                        t1 \in { Xor32(g.s3, Shl32(g.s3, 11)) } } } : TRUE

RECURSIVE RngAdvance(_, _)
RngAdvance(g, n) ==
    IF n = 0 THEN g
    ELSE CHOOSE r \in { RngAdvance(h, n - 1) : h \in {RngNext(g)} } : TRUE

\* the state the constructor sets up from the seed, before the warm-up
RngSeeded(seed) ==
    [s0 |-> OrElse(seed, K_SEED0),
     s1 |-> OrElse(Imul(seed, K_MIX1), K_SEED1),
     s2 |-> OrElse(Imul(seed, K_MIX2), K_SEED2),
     s3 |-> OrElse(Imul(seed, K_MIX3), K_SEED3)]

\* new FastRng(seed)
RngCreate(seed) == RngAdvance(RngSeeded(seed), WARMUP)

\* roll(n) for n > 1, read off the state reached by next()
RollValue(g, n) == Mod32(g.s0, n)

\* ------------------------------------------------------------------------
\* splitmix32
\* ------------------------------------------------------------------------
\* A variant that loses the update of state.x.
SplitmixStepLost(x) == x

\* state.x after the call
SplitmixStep(x) == Add32(x, K_GOLDEN)

\* value returned for the updated state.x
SplitmixOut(x) ==
    LET z1 == Imul(Xor32(x, Shr32(x, 16)), K_MIX1)
        z2 == Imul(Xor32(z1, Shr32(z1, 13)), K_MIX2)
    IN  Xor32(z2, Shr32(z2, 16))

\* ------------------------------------------------------------------------
\* JavaScript numbers at the interface: finite values are kept in halves
\* (twice = 2 * value), so that non-integers such as 3.5 are representable;
\* NaN and the infinities are separate kinds.
\* ------------------------------------------------------------------------
Fin(n) == [kind |-> "finite", twice |-> 2 * n]
Halves(h) == [kind |-> "finite", twice |-> h]
NaN == [kind |-> "nan", twice |-> 0]
PosInf == [kind |-> "inf", twice |-> 0]
NegInf == [kind |-> "-inf", twice |-> 0]

IsFinite(v) == v.kind = "finite"
IsInteger(v) == v.kind = "finite" /\ v.twice % 2 = 0
IntOf(v) == v.twice \div 2

\* ------------------------------------------------------------------------
\* Score helpers
\* ------------------------------------------------------------------------
\* A variant without the upper clamp.
clampScoreNoCeiling(r) ==
    LET x == r.twice \div 2
    IN  IF ~IsFinite(r) \/ x < 1 THEN 1 ELSE x

clampScore(r) ==
    LET x == r.twice \div 2     \* Math.floor(Number(r)) of a finite r
    IN  IF ~IsFinite(r) \/ x < 1 THEN 1
        ELSE IF x > 10 THEN 10
        ELSE x

\* A variant that takes the score as it comes, without clamping it.
scoreBpsRaw(score) ==
    LET r == score.twice \div 2
        minBps == 9585
        range == 10000 - minBps
    IN  minBps + (((r - 1) * range) \div 9)

scoreBps(score) ==
    LET r == clampScore(score)
        minBps == 9585
        range == 10000 - minBps
    IN  minBps + (((r - 1) * range) \div 9)

\* ------------------------------------------------------------------------
\* simulateFullRace: one lane's move, one tick
\* ------------------------------------------------------------------------
finishLine == TRACK_LENGTH + FINISH_OVERSHOOT

\* A variant that draws for the rounding whatever the remainder is.
SecondDrawAlways(g1, raw) == RngNext(g1)

\* if (rem > 0) { const pick = rng.roll(10_000); ... } : the generator after
\* the lane's draws, g1 being the generator after the draw of the base speed
SecondDraw(g1, raw) == IF raw % BPS_SCALE > 0 THEN RngNext(g1) ELSE g1

\* A variant without the minimum step.
LaneSpeedNoMinimum(raw, g2) ==
    LET q0 == raw \div BPS_SCALE
        rem == raw % BPS_SCALE
        pick == RollValue(g2, BPS_SCALE)
    IN  IF rem > 0 /\ pick < rem THEN q0 + 1 ELSE q0

\* A variant that always rounds down.
LaneSpeedRoundedDown(raw, g2) ==
    LET q0 == raw \div BPS_SCALE
    IN  IF q0 > 0 THEN q0 ELSE 1

\* speed, from raw = baseSpeed * bps[a] and the generator g2 after the lane's
\* draws (pick is read off it when rem > 0)
LaneSpeed(raw, g2) ==
    LET q0 == raw \div BPS_SCALE
        rem == raw % BPS_SCALE
        pick == RollValue(g2, BPS_SCALE)
        q == IF rem > 0 /\ pick < rem THEN q0 + 1 ELSE q0
    IN  IF q > 0 THEN q ELSE 1

\* A variant whose tick part is scaled by less than the fraction's range.
FinishTimeCoarse(t, prevDist, speed) ==
    LET distanceToFinish == TRACK_LENGTH - prevDist
        fractional == (distanceToFinish * FINISH_TIME_PRECISION) \div speed
    IN  t * 1000 + fractional

\* finishTimes[a] = t * FINISH_TIME_PRECISION + fractional
FinishTimeAt(t, prevDist, speed) ==
    LET distanceToFinish == TRACK_LENGTH - prevDist
        fractional == (distanceToFinish * FINISH_TIME_PRECISION) \div speed
    IN  t * FINISH_TIME_PRECISION + fractional

\* A variant that writes the finish time in every tick that ends at or past
\* the track length.
MoveLaneRetimed(s, a, t, bps, timed) ==
    CHOOSE n \in UNION { UNION { UNION {
        { LET prevDist == s.distances[a]
              newDist == prevDist + speed
              crossed == timed /\ newDist >= TRACK_LENGTH
          IN  [rng |-> g2,
               distances |-> [s.distances EXCEPT ![a] = newDist],
               finishTimes |-> IF crossed
                               THEN [s.finishTimes EXCEPT
                                       ![a] = FinishTimeAt(t, prevDist, speed)]
                               ELSE s.finishTimes] :
            speed \in { LaneSpeed(raw, g2) } } :
            g2 \in { SecondDraw(g1, raw) } } :
            raw \in { (RollValue(g1, SPEED_RANGE) + 1) * bps[a] } } :
            g1 \in { RngNext(s.rng) } } : TRUE

\* A variant that takes a lane to have crossed only when it ends beyond the
\* track length.
MoveLaneBeyond(s, a, t, bps, timed) ==
    CHOOSE n \in UNION { UNION { UNION {
        { LET prevDist == s.distances[a]
              newDist == prevDist + speed
              crossed == /\ timed
                         /\ s.finishTimes[a] = UNFINISHED
                         /\ prevDist < TRACK_LENGTH
                         /\ newDist > TRACK_LENGTH
          IN  [rng |-> g2,
               distances |-> [s.distances EXCEPT ![a] = newDist],
               finishTimes |-> IF crossed
                               THEN [s.finishTimes EXCEPT
                                       ![a] = FinishTimeAt(t, prevDist, speed)]
                               ELSE s.finishTimes] :
            speed \in { LaneSpeed(raw, g2) } } :
            g2 \in { SecondDraw(g1, raw) } } :
            raw \in { (RollValue(g1, SPEED_RANGE) + 1) * bps[a] } } :
            g1 \in { RngNext(s.rng) } } : TRUE

\* The race state is [rng, distances, finishTimes]; timed tells whether the
\* variant records fractional finish times (it does in the main variant).
MoveLane(s, a, t, bps, timed) ==
    CHOOSE n \in UNION { UNION { UNION {
        { LET prevDist == s.distances[a]
              newDist == prevDist + speed
              crossed == /\ timed
                         /\ s.finishTimes[a] = UNFINISHED
                         /\ prevDist < TRACK_LENGTH
                         /\ newDist >= TRACK_LENGTH
          IN  [rng |-> g2,
               distances |-> [s.distances EXCEPT ![a] = newDist],
               finishTimes |-> IF crossed
                               THEN [s.finishTimes EXCEPT
                                       ![a] = FinishTimeAt(t, prevDist, speed)]
                               ELSE s.finishTimes] :
            speed \in { LaneSpeed(raw, g2) } } :
            g2 \in { SecondDraw(g1, raw) } } :
            raw \in { (RollValue(g1, SPEED_RANGE) + 1) * bps[a] } } :
            g1 \in { RngNext(s.rng) } } : TRUE

\* for (let a = 0; a < LANE_COUNT; a++) { ... } from lane a on
RECURSIVE MoveLanes(_, _, _, _, _)
MoveLanes(s, a, t, bps, timed) ==
    IF a > LANE_COUNT THEN s
    ELSE CHOOSE r \in { MoveLanes(n, a + 1, t, bps, timed) :
                          n \in {MoveLane(s, a, t, bps, timed)} } : TRUE

\* A variant that stops at the track length, without the overshoot.
allFinishedAtTrack(dist) == \A a \in Lanes : ~(dist[a] < TRACK_LENGTH)

allFinished(dist) == \A a \in Lanes : ~(dist[a] < finishLine)

\* ------------------------------------------------------------------------
\* calculateFinishOrder
\* ------------------------------------------------------------------------
\* A variant of the comparator that puts the later finish time first.
SortsLatestFirst(a, b, time, dist) ==
    IF time[a] # time[b] THEN time[b] - time[a] < 0
    ELSE dist[b] - dist[a] < 0

\* The comparator of the sort is negative: a goes before b.
\* key is finishTimes in the main variant and -distance is the tiebreak.
SortsBefore(a, b, time, dist) ==
    IF time[a] # time[b] THEN time[a] - time[b] < 0
    ELSE dist[b] - dist[a] < 0

\* Stable insertion of lane l into an already sorted sequence.
RECURSIVE InsertLane(_, _, _, _)
InsertLane(sorted, l, time, dist) ==
    IF sorted = << >> THEN << l >>
    ELSE IF SortsBefore(l, Head(sorted), time, dist)
         THEN << l >> \o sorted
         ELSE << Head(sorted) >> \o InsertLane(Tail(sorted), l, time, dist)

RECURSIVE SortLanesFrom(_, _, _, _)
SortLanesFrom(sorted, l, time, dist) ==
    IF l > LANE_COUNT THEN sorted
    ELSE CHOOSE r \in { SortLanesFrom(n, l + 1, time, dist) :
                          n \in {InsertLane(sorted, l, time, dist)} } : TRUE

SortLanes(time, dist) == SortLanesFrom(<< >>, 1, time, dist)

\* Consecutive lanes of equal time are grouped; groups is the list built so
\* far, whose last element is currentGroup.
RECURSIVE GroupFrom(_, _, _, _)
GroupFrom(sorted, i, groups, time) ==
    IF i > Len(sorted) THEN groups
    ELSE LET cur == groups[Len(groups)]
             grown == IF time[sorted[i]] = time[cur[1]]
                      THEN [groups EXCEPT ![Len(groups)] = Append(cur, sorted[i])]
                      ELSE Append(groups, << sorted[i] >>)
         IN  CHOOSE r \in { GroupFrom(sorted, i + 1, g, time) : g \in {grown} } : TRUE

GroupLanes(sorted, time) == GroupFrom(sorted, 2, << << sorted[1] >> >>, time)

EmptyBand == [lanes |-> << >>, count |-> 0]
BandOf(group) == [lanes |-> group, count |-> Len(group)]

\* A variant in which a group takes one rank however many lanes it has.
RECURSIVE AssignPositionsDense(_, _, _, _)
AssignPositionsDense(groups, k, position, fo) ==
    IF k > Len(groups) THEN fo
    ELSE IF position = 0
         THEN AssignPositionsDense(groups, k + 1, position + 1,
                                   [fo EXCEPT !.first = BandOf(groups[k])])
    ELSE IF position = 1
         THEN AssignPositionsDense(groups, k + 1, position + 1,
                                   [fo EXCEPT !.second = BandOf(groups[k])])
    ELSE IF position = 2
         THEN AssignPositionsDense(groups, k + 1, position + 1,
                                   [fo EXCEPT !.third = BandOf(groups[k])])
    ELSE fo

\* for (const group of groups) { ... } from group k on, at the given position
RECURSIVE AssignPositions(_, _, _, _)
AssignPositions(groups, k, position, fo) ==
    IF k > Len(groups) THEN fo
    ELSE IF position = 0
         THEN AssignPositions(groups, k + 1, position + Len(groups[k]),
                              [fo EXCEPT !.first = BandOf(groups[k])])
    ELSE IF position = 1
         THEN AssignPositions(groups, k + 1, position + Len(groups[k]),
                              [fo EXCEPT !.second = BandOf(groups[k])])
    ELSE IF position = 2
         THEN AssignPositions(groups, k + 1, position + Len(groups[k]),
                              [fo EXCEPT !.third = BandOf(groups[k])])
    ELSE fo

NoOrder == [first |-> EmptyBand, second |-> EmptyBand, third |-> EmptyBand]

calculateFinishOrder(time, dist) ==
    CHOOSE fo \in { AssignPositions(groups, 1, 0, NoOrder) :
                       groups \in { GroupLanes(sorted, time) :
                                      sorted \in {SortLanes(time, dist)} } } : TRUE

\* ------------------------------------------------------------------------
\* accumulateStats, in tally units (UNIT = one credit)
\* ------------------------------------------------------------------------
\* How many times the loop "for (const lane of band.lanes)" visits lane l.
Visits(band, l) == Cardinality({k \in 1..Len(band.lanes) : band.lanes[k] = l})

\* A variant that does not split the win: every first-band lane gets 1.
WinAddWhole(fo, l) == Visits(fo.first, l) * UNIT

\* WIN: winShare = 1 / first.count
WinAdd(fo, l) ==
    IF Visits(fo.first, l) = 0 THEN 0
    ELSE Visits(fo.first, l) * (UNIT \div fo.first.count)

\* A variant in which a tie for first uses up one place slot only.
placeUsedOne(fo) == IF fo.first.count > 0 THEN 1 ELSE 0

\* PLACE
placeUsed(fo) == IF fo.first.count <= PLACE_SPOTS THEN fo.first.count ELSE PLACE_SPOTS
placeRemaining(fo) == PLACE_SPOTS - placeUsed(fo)

\* A variant that splits one slot, not two, over an overflowing first band.
PlaceAddFirstOneSlot(fo, l) ==
    IF Visits(fo.first, l) = 0 THEN 0
    ELSE IF fo.first.count <= PLACE_SPOTS
         THEN Visits(fo.first, l) * UNIT
         ELSE Visits(fo.first, l) * (UNIT \div fo.first.count)

PlaceAddFirst(fo, l) ==
    IF Visits(fo.first, l) = 0 THEN 0
    ELSE IF fo.first.count <= PLACE_SPOTS
         THEN Visits(fo.first, l) * UNIT
         ELSE Visits(fo.first, l) * ((PLACE_SPOTS * UNIT) \div fo.first.count)

\* A variant that pays a second band in full even when it overflows.
PlaceAddSecondFull(fo, l) ==
    IF placeRemaining(fo) > 0 /\ fo.second.count > 0
    THEN Visits(fo.second, l) * UNIT
    ELSE 0

PlaceAddSecond(fo, l) ==
    IF Visits(fo.second, l) = 0 THEN 0
    ELSE IF placeRemaining(fo) > 0 /\ fo.second.count > 0
         THEN IF fo.second.count <= placeRemaining(fo)
              THEN Visits(fo.second, l) * UNIT
              ELSE Visits(fo.second, l) * ((placeRemaining(fo) * UNIT) \div fo.second.count)
         ELSE 0

\* A variant that pays the place tier to the second band only.
PlaceAddSecondOnly(fo, l) == PlaceAddSecond(fo, l)

PlaceAdd(fo, l) == PlaceAddFirst(fo, l) + PlaceAddSecond(fo, l)

\* SHOW
showUsedFirst(fo) == IF fo.first.count <= SHOW_SPOTS THEN fo.first.count ELSE SHOW_SPOTS
showRemainingSecond(fo) == SHOW_SPOTS - showUsedFirst(fo)
showUsedSecond(fo) ==
    IF showRemainingSecond(fo) > 0 /\ fo.second.count > 0
    THEN IF fo.second.count <= showRemainingSecond(fo)
         THEN showUsedFirst(fo) + fo.second.count
         ELSE SHOW_SPOTS
    ELSE showUsedFirst(fo)
showRemainingThird(fo) == SHOW_SPOTS - showUsedSecond(fo)

ShowAddFirst(fo, l) ==
    IF Visits(fo.first, l) = 0 THEN 0
    ELSE IF fo.first.count <= SHOW_SPOTS
         THEN Visits(fo.first, l) * UNIT
         ELSE Visits(fo.first, l) * ((SHOW_SPOTS * UNIT) \div fo.first.count)

\* A variant that pays a second band in full even when it overflows.
ShowAddSecondFull(fo, l) ==
    IF showRemainingSecond(fo) > 0 /\ fo.second.count > 0
    THEN Visits(fo.second, l) * UNIT
    ELSE 0

ShowAddSecond(fo, l) ==
    IF Visits(fo.second, l) = 0 THEN 0
    ELSE IF showRemainingSecond(fo) > 0 /\ fo.second.count > 0
         THEN IF fo.second.count <= showRemainingSecond(fo)
              THEN Visits(fo.second, l) * UNIT
              ELSE Visits(fo.second, l)
                     * ((showRemainingSecond(fo) * UNIT) \div fo.second.count)
         ELSE 0

\* A variant that pays a third band in full even when it overflows.
ShowAddThirdFull(fo, l) ==
    IF showRemainingThird(fo) > 0 /\ fo.third.count > 0
    THEN Visits(fo.third, l) * UNIT
    ELSE 0

ShowAddThird(fo, l) ==
    IF Visits(fo.third, l) = 0 THEN 0
    ELSE IF showRemainingThird(fo) > 0 /\ fo.third.count > 0
         THEN IF fo.third.count <= showRemainingThird(fo)
              THEN Visits(fo.third, l) * UNIT
              ELSE Visits(fo.third, l)
                     * ((showRemainingThird(fo) * UNIT) \div fo.third.count)
         ELSE 0

ShowAdd(fo, l) == ShowAddFirst(fo, l) + ShowAddSecond(fo, l) + ShowAddThird(fo, l)

\* A variant that keeps the credits of the last race only.
accumulateStatsAfresh(st, fo) ==
    [l \in Lanes |->
        [winCredits   |-> WinAdd(fo, l),
         placeCredits |-> PlaceAdd(fo, l),
         showCredits  |-> ShowAdd(fo, l)]]

accumulateStats(st, fo) ==
    [l \in Lanes |->
        [winCredits   |-> st[l].winCredits + WinAdd(fo, l),
         placeCredits |-> st[l].placeCredits + PlaceAdd(fo, l),
         showCredits  |-> st[l].showCredits + ShowAdd(fo, l)]]

\* ------------------------------------------------------------------------
\* fmtBps(credits / samples) = Math.round((credits / samples) * 10000)
\* credits is in tally units, samples a JavaScript number.  The quotient is
\* computed exactly; Math.round is floor(x + 1/2).
\* ------------------------------------------------------------------------
\* A variant that rounds an exact half down.
RoundHalfDown(num, den) == (2 * num + den - 1) \div (2 * den)

RoundHalfUp(num, den) == (2 * num + den) \div (2 * den)

\* A variant that reports whole percents: Math.round(p * 100).
fmtPercent(credits, samples) ==
    IF samples.kind # "finite" \/ samples.twice <= 0 THEN NaN
    ELSE Fin(RoundHalfUp(credits * 2 * 100, UNIT * samples.twice))

fmtBps(credits, samples) ==
    IF samples.kind = "nan" THEN NaN
    ELSE IF samples.kind # "finite" THEN Fin(0)
    ELSE IF samples.twice = 0 THEN (IF credits = 0 THEN NaN ELSE PosInf)
    ELSE IF samples.twice > 0
         THEN Fin(RoundHalfUp(credits * 2 * BPS_SCALE, UNIT * samples.twice))
         ELSE Fin(RoundHalfUp(0 - credits * 2 * BPS_SCALE, UNIT * (0 - samples.twice)))

\* ------------------------------------------------------------------------
\* Bounds of the model
\* ------------------------------------------------------------------------
MaxSamples == 3    \* largest sample count passed
MaxSalt == 1       \* largest salt passed
MaxNow == 2        \* readings of Date.now() are 1..MaxNow

\* ------------------------------------------------------------------------
\* Arguments
\* ------------------------------------------------------------------------
\* A scores argument: whether Array.isArray holds, and its elements.
ScoresA == [isArray |-> TRUE,
            items |-> << Fin(0), Fin(3), NaN, Halves(7), PosInf, Fin(3) >>]
ScoresB == [isArray |-> TRUE,
            items |-> << Fin(11), Fin(4), Fin(4), Fin(4), Halves(9), Fin(4) >>]
ScoresShort == [isArray |-> TRUE,
                items |-> << Fin(5), Fin(5), Fin(5), Fin(5), Fin(5) >>]
ScoresLong == [isArray |-> TRUE,
               items |-> << Fin(5), Fin(5), Fin(5), Fin(5), Fin(5), Fin(5), Fin(5) >>]
\* not an array, yet with a length of 6 (a string, an array-like object)
ScoresNotArray == [isArray |-> FALSE,
                   items |-> << Fin(5), Fin(5), Fin(5), Fin(5), Fin(5), Fin(5) >>]

ScoresArgs == {ScoresA, ScoresB, ScoresShort, ScoresLong, ScoresNotArray}

SamplesArgs == {NaN, PosInf, Halves(1), Fin(0 - 1), Fin(0), Fin(1), Fin(MaxSamples)}

SaltArgs == 0..MaxSalt

NowValues == 1..MaxNow

\* ------------------------------------------------------------------------
\* State
\* ------------------------------------------------------------------------
VARIABLES
    variant,        \* which calculateProbabilities is loaded: "salted" is
                    \* part_003:408, "clocked" is src/monte-carlo.js:275
    pc,             \* "idle", "loop" (head of the sample loop), "race" (tick loop)
    args,           \* arguments of the current / last call
    outcome,        \* of the current / last call: "none", "running", "returned", "threw"
    clampedScores,  \* locals of calculateProbabilities
    stats,
    seedState,
    i,
    race,           \* locals of simulateFullRace: rng, distances, finishTimes
    t,
    bps,            \* local of simulateFullRace: the lanes' bias
    seeds,          \* the seeds derived so far by the current call, in order
    finishOrder,    \* finish order of the last completed race
    result,         \* value returned by the last call
    remembered,     \* one earlier call that returned, kept for comparison
    net,            \* src/index.js: the provider in use and the call of withRetry
    bot             \* src/index.js: the loop of runBot

vars == << variant, pc, args, outcome, clampedScores, stats, seedState,
           i, race, t, bps, seeds, finishOrder, result, remembered, net, bot >>

\* The simulation's variables, left alone by the steps of src/index.js.
simVars == << variant, pc, args, outcome, clampedScores, stats, seedState,
              i, race, t, bps, seeds, finishOrder, result, remembered >>

\* undefined, for lastError, and for a value or an error not there
Undefined == 0

\* No call of withRetry yet; currentProviderIndex is 0 when the module loads.
\* calls counts the calls of fn by the current call of withRetry, and
\* startIndex is currentProviderIndex when that call began.
NetWith(n) ==
    [totalProviders |-> n, currentProviderIndex |-> 0,
     phase |-> "idle", maxRetries |-> 0, providerAttempt |-> 0, attempt |-> 0,
     lastError |-> Undefined, returned |-> Undefined, thrown |-> Undefined,
     calls |-> 0, startIndex |-> 0]

NoNet == NetWith(1)

\* The loop of runBot in its first iteration.  iteration counts the passes
\* of the loop begun, readAt is the pass in which the dashboard was last read
\* and action what it said, checkedAt the pass in which the CREATE_RACE case
\* last called getActiveUsers and activeUsers what that returned, waited what
\* the last call made by waitForActiveUsers returned, executed the calls of
\* giraffeRace.createRace() and of executeSettleRace(), and sent the
\* createRace transactions sent.
BotWith(skip) ==
    [skipPresenceCheck |-> skip, pc |-> "top", iteration |-> 1,
     readAt |-> 0, action |-> Undefined,
     checkedAt |-> 0, activeUsers |-> Undefined, waited |-> Undefined,
     executed |-> 0, sent |-> 0]

NoBot == BotWith(FALSE)

ZeroStats == [l \in Lanes |-> [winCredits |-> 0, placeCredits |-> 0, showCredits |-> 0]]

NoRace == [rng |-> [s0 |-> Word(0), s1 |-> Word(0), s2 |-> Word(0), s3 |-> Word(0)],
           distances |-> [l \in Lanes |-> 0],
           finishTimes |-> [l \in Lanes |-> UNFINISHED]]

NoBps == [l \in Lanes |-> 0]

NoResult == [scores |-> << >>, samples |-> NaN, elapsedMs |-> 0,
             winProbBps |-> << >>, placeProbBps |-> << >>, showProbBps |-> << >>]

NoArgs == [scores |-> ScoresShort, samples |-> NaN, salt |-> 0]

\* age is "none" (nothing kept), "this" (the call that just returned) or
\* "earlier" (a call that returned before the current one began)
NoCall == [age |-> "none", args |-> NoArgs,
           winProbBps |-> << >>, placeProbBps |-> << >>, showProbBps |-> << >>]

InitSim(v) ==
    /\ variant = v
    /\ pc = "idle"
    /\ args = NoArgs
    /\ outcome = "none"
    /\ clampedScores = << >>
    /\ stats = ZeroStats
    /\ seedState = Word(0)
    /\ i = 0
    /\ race = NoRace
    /\ t = 0
    /\ bps = NoBps
    /\ seeds = << >>
    /\ finishOrder = NoOrder
    /\ result = NoResult
    /\ remembered = NoCall

InitWith(v) ==
    /\ InitSim(v)
    /\ net = NoNet
    /\ bot = NoBot

Init == InitWith("salted")

\* ------------------------------------------------------------------------
\* calculateProbabilities
\* ------------------------------------------------------------------------
\* The validation at the head of the function: does it throw?
Rejects(v, sc, sm) ==
    IF v = "salted"
    THEN \/ ~sc.isArray \/ Len(sc.items) # LANE_COUNT
         \/ ~IsFinite(sm) \/ sm.twice <= 0
    ELSE \/ Len(sc.items) # 6
         \/ ~sc.isArray           \* scores.map is not a function

\* Does the sample loop end?  (i < Infinity holds for ever; that call is
\* not explored.)
Terminates(v, sm) == sm.kind # "inf"

\* A variant that seeds from the clock whatever the salt.
SeedOriginClock(v, salt, now) == OrElse(Imul(Word(now), K_GOLDEN), K_SEED0)

\* seedState.x before the scores are mixed in: (salt * 0x9e3779b9) >>> 0 ||
\* 0x12345678, or the same of Date.now().  The product is a double; for the
\* factors up to MaxSalt and MaxNow it is exact and its low 32 bits are
\* those of Math.imul.
SeedOrigin(v, salt, now) ==
    IF v = "salted"
    THEN OrElse(Imul(Word(salt), K_GOLDEN), K_SEED0)
    ELSE OrElse(Imul(Word(now), K_GOLDEN), K_SEED0)

\* for (const s of clampedScores) { seedState.x ^= s * 0x85ebca6b; splitmix32Next }
RECURSIVE MixScores(_, _, _)
MixScores(x, cs, k) ==
    IF k > Len(cs) THEN x
    ELSE CHOOSE r \in { MixScores(y, cs, k + 1) :
                          y \in {SplitmixStep(Xor32(x, Imul(Word(cs[k]), K_MIX1)))} } : TRUE

ClampAll(sc) == [k \in 1..Len(sc.items) |-> clampScore(sc.items[k])]

\* The variant of src/monte-carlo.js has no salt parameter.
TakesSalt(v, sa) == v = "salted" \/ sa = 0

\* The call throws on its arguments.
Reject(sc, sm, sa) ==
    /\ pc = "idle"
    /\ TakesSalt(variant, sa)
    /\ Rejects(variant, sc, sm)
    /\ args' = [scores |-> sc, samples |-> sm, salt |-> sa]
    /\ outcome' = "threw"
    /\ result' = NoResult
    /\ UNCHANGED << variant, pc, clampedScores, stats, seedState, i, race, t,
                    bps, seeds, finishOrder, remembered, net, bot >>

\* The call passes validation and reaches the head of the sample loop.
Accept(sc, sm, sa, now) ==
    /\ pc = "idle"
    /\ TakesSalt(variant, sa)
    /\ ~Rejects(variant, sc, sm)
    /\ Terminates(variant, sm)
    /\ args' = [scores |-> sc, samples |-> sm, salt |-> sa]
    /\ outcome' = "running"
    /\ result' = NoResult
    /\ clampedScores' = ClampAll(sc)
    /\ stats' = ZeroStats
    /\ seedState' = MixScores(SeedOrigin(variant, sa, now), ClampAll(sc), 1)
    /\ i' = 0
    /\ pc' = "loop"
    /\ remembered' = IF remembered.age = "this"
                     THEN [remembered EXCEPT !.age = "earlier"]
                     ELSE remembered
    /\ seeds' = << >>
    /\ UNCHANGED << variant, race, t, bps, finishOrder, net, bot >>

\* A variant of the loop test that admits i = samples.
LoopContinuesInclusive(k, sm) ==
    CASE sm.kind = "finite" -> 2 * k <= sm.twice
      [] sm.kind = "inf" -> TRUE
      [] OTHER -> FALSE

\* i < samples : NaN compares false with everything
LoopContinues(k, sm) ==
    CASE sm.kind = "finite" -> 2 * k < sm.twice
      [] sm.kind = "inf" -> TRUE
      [] OTHER -> FALSE

\* const bps = [scoreBps(scores[0]), ..., scoreBps(scores[5])]
BpsOf(cs) == [a \in Lanes |-> scoreBps(Fin(cs[a]))]

\* A variant in which every race draws from a generator of one fixed seed.
RaceStartShared(seed) ==
    [rng |-> RngCreate(K_SEED0),
     distances |-> [l \in Lanes |-> 0],
     finishTimes |-> [l \in Lanes |-> UNFINISHED]]

\* const rng = new FastRng(seed); distances and finishTimes as created
RaceStart(seed) ==
    [rng |-> RngCreate(seed),
     distances |-> [l \in Lanes |-> 0],
     finishTimes |-> [l \in Lanes |-> UNFINISHED]]

\* const seed = splitmix32Next(seedState); simulateFullRace up to the tick loop
StartRace ==
    /\ pc = "loop"
    /\ LoopContinues(i, args.samples)
    /\ seedState' = SplitmixStep(seedState)
    /\ seeds' = Append(seeds, SplitmixOut(seedState'))
    /\ race' = RaceStart(SplitmixOut(seedState'))
    /\ bps' = BpsOf(clampedScores)
    /\ t' = 0
    /\ pc' = "race"
    /\ UNCHANGED << variant, args, outcome, clampedScores, stats, i,
                    finishOrder, result, remembered, net, bot >>

\* One iteration of the tick loop that moves the lanes.
Tick ==
    /\ pc = "race"
    /\ t < MAX_TICKS
    /\ ~allFinished(race.distances)
    /\ race' = MoveLanes(race, 1, t, bps, variant = "salted")
    /\ t' = t + 1
    /\ UNCHANGED << variant, pc, args, outcome, clampedScores, stats,
                    seedState, i, bps, seeds, finishOrder, result, remembered, net, bot >>

\* The finish order the variant computes from the final race state.
OrderOf(v, r) ==
    IF v = "salted"
    THEN calculateFinishOrder(r.finishTimes, r.distances)
    ELSE calculateFinishOrder([l \in Lanes |-> 0 - r.distances[l]], r.distances)

\* The tick loop ends; the finish order is resolved and accumulated.
FinishRace ==
    /\ pc = "race"
    /\ (~(t < MAX_TICKS) \/ allFinished(race.distances))
    /\ finishOrder' = OrderOf(variant, race)
    /\ stats' = accumulateStats(stats, finishOrder')
    /\ i' = i + 1
    /\ pc' = "loop"
    /\ UNCHANGED << variant, args, outcome, clampedScores, seedState,
                    race, t, bps, seeds, result, remembered, net, bot >>

\* The sample loop ends; the result object is built and returned.  elapsed
\* is Date.now() - started; keep tells whether the call is remembered.
Return(elapsed, keep) ==
    /\ pc = "loop"
    /\ ~LoopContinues(i, args.samples)
    /\ result' = [scores |-> clampedScores,
                  samples |-> args.samples,
                  elapsedMs |-> elapsed,
                  winProbBps |-> [l \in Lanes |-> fmtBps(stats[l].winCredits, args.samples)],
                  placeProbBps |-> [l \in Lanes |-> fmtBps(stats[l].placeCredits, args.samples)],
                  showProbBps |-> [l \in Lanes |-> fmtBps(stats[l].showCredits, args.samples)]]
    /\ outcome' = "returned"
    /\ remembered' = IF keep
                     THEN [age |-> "this", args |-> args,
                           winProbBps |-> result'.winProbBps,
                           placeProbBps |-> result'.placeProbBps,
                           showProbBps |-> result'.showProbBps]
                     ELSE remembered
    /\ pc' = "idle"
    \* the locals of the call go out of scope
    /\ clampedScores' = << >>
    /\ stats' = ZeroStats
    /\ seedState' = Word(0)
    /\ i' = 0
    /\ race' = NoRace
    /\ t' = 0
    /\ bps' = NoBps
    /\ seeds' = << >>
    /\ finishOrder' = NoOrder
    /\ UNCHANGED << variant, args, net, bot >>

Next ==
    \/ \E sc \in ScoresArgs, sm \in SamplesArgs, sa \in SaltArgs : Reject(sc, sm, sa)
    \/ \E sc \in ScoresArgs, sm \in SamplesArgs, sa \in SaltArgs, now \in NowValues :
          Accept(sc, sm, sa, now)
    \/ StartRace
    \/ Tick
    \/ FinishRace
    \/ \E elapsed \in 0..(MaxNow - 1) : Return(elapsed, FALSE)

Spec == Init /\ [][Next]_vars

\* The variant of src/monte-carlo.js (seeded from the clock, no salt).
InitMC == InitWith("clocked")
SpecMC == InitMC /\ [][Next]_vars

\* ------------------------------------------------------------------------
\* Two calls with the same arguments: the first call that returns is
\* remembered, and the next call that passes validation repeats its
\* arguments (at another reading of the clock).  Calls that throw may come
\* at any time in between.
\* ------------------------------------------------------------------------
FirstCall ==
    /\ remembered.age = "none"
    /\ \E sc \in ScoresArgs, sm \in SamplesArgs, sa \in SaltArgs, now \in NowValues :
          Accept(sc, sm, sa, now)

RepeatCall ==
    /\ remembered.age = "this"
    /\ \E now \in NowValues :
          Accept(remembered.args.scores, remembered.args.samples,
                 remembered.args.salt, now)

NextRepeat ==
    \/ \E sc \in ScoresArgs, sm \in SamplesArgs, sa \in SaltArgs : Reject(sc, sm, sa)
    \/ FirstCall
    \/ RepeatCall
    \/ StartRace
    \/ Tick
    \/ FinishRace
    \/ \E elapsed \in 0..(MaxNow - 1) : Return(elapsed, remembered.age = "none")

SpecRepeat == Init /\ [][NextRepeat]_vars

\* ------------------------------------------------------------------------
\* The sample loop over race outcomes given from outside: each iteration
\* ends its race either in a recorded outcome or, once per run, in any
\* outcome whatever; the resolver and the accumulator then run as in the
\* code.  The generator plays no part once the race is over and is left
\* out of these outcomes.
\* ------------------------------------------------------------------------
MaxRuns == 2       \* iterations of the sample loop in such a run
MaxPatterns == 2   \* ways the final distances are laid out over the lanes

\* Finish times a lane can end with: unfinished, or one of three instants.
FinishTimeValues == {UNFINISHED, 1795000, 1802000, 1814285}

\* Outcomes of two simulations of the code (seeds 1576458421 and 2508298308).
RecordedTimes(k) ==
    IF k % 2 = 0
    THEN << 1795000, 1795000, 1902857, 1996250, 1814285, 1968333 >>
    ELSE << 1736000, 1860000, 1885000, 1860000, 1914444, 1906000 >>

RecordedDistances(k) ==
    IF k % 2 = 0
    THEN << 1126, 1108, 1074, 1017, 1114, 1039 >>
    ELSE << 1085, 1046, 1017, 1034, 1014, 1016 >>

\* Final distances that fit the finish times: below the track length exactly
\* for the unfinished lanes, all different, laid out by pattern p.
DistancesFor(ft, p) ==
    [l \in Lanes |->
        (IF ft[l] = UNFINISHED THEN 900 ELSE finishLine)
        + ((l * p) % (LANE_COUNT + 1))]

TicksFor(ft) == IF \E l \in Lanes : ft[l] = UNFINISHED THEN MAX_TICKS ELSE 200

InitOrder ==
    /\ variant = "salted"
    /\ pc = "loop"
    /\ args = [scores |-> ScoresA, samples |-> Fin(MaxRuns), salt |-> 1]
    /\ outcome = "running"
    /\ clampedScores = ClampAll(ScoresA)
    /\ stats = ZeroStats
    /\ seedState = MixScores(SeedOrigin("salted", 1, 1), ClampAll(ScoresA), 1)
    /\ i = 0
    /\ race = NoRace
    /\ t = 0
    /\ bps = NoBps
    /\ seeds = << >>
    /\ finishOrder = NoOrder
    /\ result = NoResult
    /\ remembered = NoCall
    /\ net = NoNet
    /\ bot = NoBot

\* Has a race of this run ended in an outcome that is not a recorded one?
\* (remembered.age marks it: "this" once the free outcome is used.)
FreeOutcomeUsed == remembered.age = "this"

\* The race of iteration i ends in the recorded outcome.
RecordedRace ==
    /\ pc = "loop"
    /\ LoopContinues(i, args.samples)
    /\ seedState' = SplitmixStep(seedState)
    /\ seeds' = Append(seeds, SplitmixOut(seedState'))
    /\ bps' = BpsOf(clampedScores)
    /\ race' = [rng |-> NoRace.rng,
                distances |-> RecordedDistances(i),
                finishTimes |-> RecordedTimes(i)]
    /\ t' = 200
    /\ pc' = "race"
    /\ UNCHANGED << variant, args, outcome, clampedScores, stats, i,
                    finishOrder, result, remembered, net, bot >>

\* The race of iteration i ends with some finish times ft, the final
\* distances laid out by some pattern p.
AnyRace ==
    /\ pc = "loop"
    /\ LoopContinues(i, args.samples)
    /\ ~FreeOutcomeUsed
    /\ seedState' = SplitmixStep(seedState)
    /\ seeds' = Append(seeds, SplitmixOut(seedState'))
    /\ bps' = BpsOf(clampedScores)
    /\ \E ft \in [Lanes -> FinishTimeValues], p \in 1..MaxPatterns :
          /\ race' = [rng |-> NoRace.rng,
                      distances |-> DistancesFor(ft, p),
                      finishTimes |-> ft]
          /\ t' = TicksFor(ft)
    /\ pc' = "race"
    /\ remembered' = [remembered EXCEPT !.age = "this"]
    /\ UNCHANGED << variant, args, outcome, clampedScores, stats, i,
                    finishOrder, result, net, bot >>

NextOrder ==
    \/ RecordedRace
    \/ AnyRace
    \/ FinishRace
    \/ \E elapsed \in 0..(MaxNow - 1) : Return(elapsed, FALSE)

SpecOrder == InitOrder /\ [][NextOrder]_vars

\* ------------------------------------------------------------------------
\* Calls one after the other, each a run of the sample loop over race
\* outcomes given from outside.
\* ------------------------------------------------------------------------
NextCalls ==
    \/ \E sm \in {Fin(1), Fin(MaxRuns)}, now \in NowValues : Accept(ScoresA, sm, 1, now)
    \/ RecordedRace
    \/ AnyRace
    \/ FinishRace
    \/ \E elapsed \in 0..(MaxNow - 1) : Return(elapsed, FALSE)

SpecCalls == Init /\ [][NextCalls]_vars

\* ------------------------------------------------------------------------
\* The end of a run of n samples: the first n - 1 races have ended in the
\* recorded outcomes and are accumulated, the last race is still to be run.
\* ------------------------------------------------------------------------
MaxCount == 8      \* largest sample count of such a run

\* stats after the first k races of the run
RECURSIVE TallyOfRecorded(_)
TallyOfRecorded(k) ==
    IF k = 0 THEN ZeroStats
    ELSE CHOOSE r \in { accumulateStats(st, calculateFinishOrder(RecordedTimes(k - 1),
                                                                RecordedDistances(k - 1))) :
                          st \in {TallyOfRecorded(k - 1)} } : TRUE

\* seedState.x after k calls of splitmix32Next
RECURSIVE SeedStateAfter(_, _)
SeedStateAfter(x, k) ==
    IF k = 0 THEN x
    ELSE CHOOSE r \in { SeedStateAfter(y, k - 1) : y \in {SplitmixStep(x)} } : TRUE

InitRound ==
    /\ variant = "salted"
    /\ pc = "loop"
    /\ \E n \in 1..MaxCount :
          /\ args = [scores |-> ScoresA, samples |-> Fin(n), salt |-> 1]
          /\ i = n - 1
          /\ stats = TallyOfRecorded(n - 1)
          /\ seedState = SeedStateAfter(
                             MixScores(SeedOrigin("salted", 1, 1), ClampAll(ScoresA), 1),
                             n - 1)
          /\ seeds = [k \in 1..(n - 1) |->
                        SplitmixOut(SeedStateAfter(
                            MixScores(SeedOrigin("salted", 1, 1), ClampAll(ScoresA), 1), k))]
          /\ race = IF n = 1 THEN NoRace
                    ELSE [rng |-> NoRace.rng,
                          distances |-> RecordedDistances(n - 2),
                          finishTimes |-> RecordedTimes(n - 2)]
          /\ t = IF n = 1 THEN 0 ELSE 200
          /\ bps = IF n = 1 THEN NoBps ELSE BpsOf(ClampAll(ScoresA))
          /\ finishOrder = IF n = 1 THEN NoOrder
                           ELSE calculateFinishOrder(RecordedTimes(n - 2),
                                                     RecordedDistances(n - 2))
    /\ outcome = "running"
    /\ clampedScores = ClampAll(ScoresA)
    /\ result = NoResult
    /\ remembered = NoCall
    /\ net = NoNet
    /\ bot = NoBot

SpecRound == InitRound /\ [][NextOrder]_vars

\* ------------------------------------------------------------------------
\* accumulateStats on finish orders given from outside (the resolver is not
\* involved): every lane is put in the first, second or third band or in
\* none, and the tally is one a run can have reached.
\* ------------------------------------------------------------------------
BandNames == {"first", "second", "third", "none"}

\* The lanes that f puts in band b, in lane order.
BandLanes(f, b) == SelectSeq(<< 1, 2, 3, 4, 5, 6 >>, LAMBDA l : f[l] = b)

GivenOrder(f) ==
    [first  |-> BandOf(BandLanes(f, "first")),
     second |-> BandOf(BandLanes(f, "second")),
     third  |-> BandOf(BandLanes(f, "third"))]

\* Tallies at the head of the sample loop: none yet, or after the two
\* recorded races.
TallyAfter(n) ==
    IF n = 0 THEN ZeroStats
    ELSE accumulateStats(
             accumulateStats(ZeroStats,
                 calculateFinishOrder(RecordedTimes(0), RecordedDistances(0))),
             calculateFinishOrder(RecordedTimes(1), RecordedDistances(1)))

InitAcc ==
    /\ variant = "salted"
    /\ pc = "resolved"
    /\ args = [scores |-> ScoresA, samples |-> Fin(MaxSamples), salt |-> 1]
    /\ outcome = "running"
    /\ clampedScores = ClampAll(ScoresA)
    /\ \E n \in {0, 2} : stats = TallyAfter(n) /\ i = n
    /\ seedState = Word(0)
    /\ race = NoRace
    /\ t = 0
    /\ bps = NoBps
    /\ seeds = << >>
    /\ \E f \in [Lanes -> BandNames] : finishOrder = GivenOrder(f)
    /\ result = NoResult
    /\ remembered = NoCall
    /\ net = NoNet
    /\ bot = NoBot

\* accumulateStats(stats, finishOrder); the loop counter moves on.
Accumulate ==
    /\ pc = "resolved"
    /\ stats' = accumulateStats(stats, finishOrder)
    /\ i' = i + 1
    /\ pc' = "loop"
    /\ UNCHANGED << variant, args, outcome, clampedScores, seedState,
                    race, t, bps, seeds, finishOrder, result, remembered, net, bot >>

NextAcc == Accumulate

SpecAcc == InitAcc /\ [][NextAcc]_vars

\* ------------------------------------------------------------------------
\* scoreBps on scores given from outside: simulateFullRace computes the
\* bias of its six scores, here any values at all.
\* ------------------------------------------------------------------------
MaxScore == 12     \* largest whole score tried; the halves in between are tried too

ScoreValues ==
    {NaN, PosInf, NegInf, Fin(1000)} \cup { Halves(h) : h \in (0 - 4)..(2 * MaxScore) }

InitBias ==
    /\ variant = "salted"
    /\ pc = "bias"
    /\ \E x \in ScoreValues, y \in ScoreValues :
          args = [scores |-> [isArray |-> TRUE, items |-> << x, y, x, y, x, y >>],
                  samples |-> Fin(1), salt |-> 0]
    /\ outcome = "running"
    /\ clampedScores = << >>
    /\ stats = ZeroStats
    /\ seedState = Word(0)
    /\ i = 0
    /\ race = NoRace
    /\ t = 0
    /\ bps = NoBps
    /\ seeds = << >>
    /\ finishOrder = NoOrder
    /\ result = NoResult
    /\ remembered = NoCall
    /\ net = NoNet
    /\ bot = NoBot

\* const bps = [scoreBps(scores[0]), ..., scoreBps(scores[5])]
ComputeBias ==
    /\ pc = "bias"
    /\ bps' = [a \in Lanes |-> scoreBps(args.scores.items[a])]
    /\ pc' = "biased"
    /\ UNCHANGED << variant, args, outcome, clampedScores, stats, seedState, i,
                    race, t, seeds, finishOrder, result, remembered, net, bot >>

NextBias == ComputeBias

SpecBias == InitBias /\ [][NextBias]_vars

\* ------------------------------------------------------------------------
\* The seeds of a long run: the sample loop of a call that asked for
\* MaxSeeds samples, every race ending in a recorded outcome.
\* ------------------------------------------------------------------------
MaxSeeds == 24     \* samples of such a run

InitSeeds ==
    /\ variant = "salted"
    /\ pc = "loop"
    /\ \E sc \in {ScoresA, ScoresB}, sa \in SaltArgs :
          /\ args = [scores |-> sc, samples |-> Fin(MaxSeeds), salt |-> sa]
          /\ clampedScores = ClampAll(sc)
          /\ seedState = MixScores(SeedOrigin("salted", sa, 1), ClampAll(sc), 1)
    /\ outcome = "running"
    /\ stats = ZeroStats
    /\ i = 0
    /\ race = NoRace
    /\ t = 0
    /\ bps = NoBps
    /\ seeds = << >>
    /\ finishOrder = NoOrder
    /\ result = NoResult
    /\ remembered = NoCall
    /\ net = NoNet
    /\ bot = NoBot

NextSeeds ==
    \/ RecordedRace
    \/ FinishRace
    \/ \E elapsed \in 0..(MaxNow - 1) : Return(elapsed, FALSE)

SpecSeeds == InitSeeds /\ [][NextSeeds]_vars

\* ------------------------------------------------------------------------
\* The tick loop from race states given from outside: a one-sample run is in
\* the middle of its race, close to the finish line or close to the tick
\* limit, with scores that cover 1..10 and the generator of some seed.
\* ------------------------------------------------------------------------
MaxRngs == 8       \* generators tried

\* seeds of the generators tried (seed 35 draws the smallest step at once)
GivenSeeds == 30..(29 + MaxRngs)

GivenScores == { << 1, 2, 3, 4, 5, 6 >>, << 7, 8, 9, 10, 1, 10 >> }

\* Lanes 1 and 4 crossed the line in tick 179; the others are about to.
NearTheLine ==
    [t |-> 180,
     distances |-> << 1003, 995, 985, 1008, 999, 975 >>,
     finishTimes |-> << 1794000, UNFINISHED, UNFINISHED, 1791111, UNFINISHED, UNFINISHED >>]

\* Two ticks are left; lane 3 crossed the line in tick 497, lane 2 is far off.
NearTheLimit ==
    [t |-> MAX_TICKS - 2,
     distances |-> << 995, 700, 1004, 998, 990, 996 >>,
     finishTimes |-> << UNFINISHED, UNFINISHED, 4975000, UNFINISHED, UNFINISHED, UNFINISHED >>]

InitTick ==
    /\ variant = "salted"
    /\ pc = "race"
    /\ outcome = "running"
    /\ \E cs \in GivenScores :
          /\ args = [scores |-> [isArray |-> TRUE,
                                 items |-> [k \in 1..LANE_COUNT |-> Fin(cs[k])]],
                     samples |-> Fin(1), salt |-> 0]
          /\ clampedScores = cs
          /\ bps = BpsOf(cs)
          /\ seedState = SplitmixStep(MixScores(SeedOrigin("salted", 0, 1), cs, 1))
    /\ seeds = << SplitmixOut(seedState) >>
    /\ stats = ZeroStats
    /\ i = 0
    /\ \E n \in GivenSeeds, at \in {NearTheLine, NearTheLimit} :
          /\ race = [rng |-> RngCreate(Word(n)),
                     distances |-> at.distances,
                     finishTimes |-> at.finishTimes]
          /\ t = at.t
    /\ finishOrder = NoOrder
    /\ result = NoResult
    /\ remembered = NoCall
    /\ net = NoNet
    /\ bot = NoBot

NextTick ==
    \/ Tick
    \/ FinishRace
    \/ \E elapsed \in 0..(MaxNow - 1) : Return(elapsed, FALSE)

SpecTick == InitTick /\ [][NextTick]_vars

\* The code runs on: a step that can be taken is taken.
SpecTickLive == SpecTick /\ WF_vars(NextTick)


\* ------------------------------------------------------------------------
\* withRetry and switchProvider (src/index.js)
\* The k-th call of fn by a call of withRetry either returns the value k or
\* throws the error k.
\* ------------------------------------------------------------------------
MaxProviders == 3  \* largest number of providers
MaxRetries == 3    \* largest maxRetries passed (3 is the default)

\* currentProviderIndex = (currentProviderIndex + 1) % providers.length
switchProvider(n) ==
    [n EXCEPT !.currentProviderIndex = (n.currentProviderIndex + 1) % n.totalProviders]

\* A variant that switches the provider after the last run as well.
AfterAttemptsAlwaysSwitch(n) ==
    IF n.providerAttempt < n.totalProviders - 1
    THEN [switchProvider(n) EXCEPT !.phase = "switchSleep"]
    ELSE [switchProvider(n) EXCEPT !.providerAttempt = n.providerAttempt + 1,
                                   !.phase = "threw",
                                   !.thrown = n.lastError]

\* The inner loop over attempt has ended: the provider is switched and the
\* call sleeps, or the outer loop ends and lastError is thrown.
AfterAttempts(n) ==
    IF n.providerAttempt < n.totalProviders - 1
    THEN [switchProvider(n) EXCEPT !.phase = "switchSleep"]
    ELSE [n EXCEPT !.providerAttempt = n.providerAttempt + 1,
                   !.phase = "threw",
                   !.thrown = n.lastError]

\* The head of the inner loop for the current providerAttempt: attempt = 1
EnterAttempts(n) ==
    IF 1 <= n.maxRetries
    THEN [n EXCEPT !.attempt = 1, !.phase = "calling"]
    ELSE AfterAttempts([n EXCEPT !.attempt = 1])

\* withRetry(fn, maxRetries) is called, up to the first await.
CallWithRetry(maxRetries) ==
    /\ net.phase \in {"idle", "returned", "threw"}
    /\ net' = EnterAttempts([net EXCEPT !.maxRetries = maxRetries,
                                        !.lastError = Undefined,
                                        !.returned = Undefined,
                                        !.thrown = Undefined,
                                        !.providerAttempt = 0,
                                        !.calls = 0,
                                        !.startIndex = net.currentProviderIndex])
    /\ UNCHANGED << simVars, bot >>

\* return await fn(): fn returns.
FnReturns ==
    /\ net.phase = "calling"
    /\ net' = [net EXCEPT !.calls = net.calls + 1,
                          !.returned = net.calls + 1,
                          !.phase = "returned"]
    /\ UNCHANGED << simVars, bot >>

\* await fn() throws: the catch block, and what follows up to the next await.
FnThrows ==
    /\ net.phase = "calling"
    /\ net' = LET caught == [net EXCEPT !.calls = net.calls + 1,
                                        !.lastError = net.calls + 1]
              IN  IF net.attempt < net.maxRetries
                  THEN [caught EXCEPT !.phase = "retrySleep"]
                  ELSE AfterAttempts([caught EXCEPT !.attempt = net.attempt + 1])
    /\ UNCHANGED << simVars, bot >>

\* await sleep(delayMs) in the catch block ends: attempt++
RetrySleepEnds ==
    /\ net.phase = "retrySleep"
    /\ net' = [net EXCEPT !.attempt = net.attempt + 1, !.phase = "calling"]
    /\ UNCHANGED << simVars, bot >>

\* await sleep(delayMs) after switchProvider() ends: providerAttempt++
SwitchSleepEnds ==
    /\ net.phase = "switchSleep"
    /\ net' = EnterAttempts([net EXCEPT !.providerAttempt = net.providerAttempt + 1])
    /\ UNCHANGED << simVars, bot >>

InitRetry ==
    /\ InitSim("salted")
    /\ \E n \in 1..MaxProviders : net = NetWith(n)
    /\ bot = NoBot

NextRetry ==
    \/ \E maxRetries \in 0..MaxRetries : CallWithRetry(maxRetries)
    \/ FnReturns
    \/ FnThrows
    \/ RetrySleepEnds
    \/ SwitchSleepEnds

SpecRetry == InitRetry /\ [][NextRetry]_vars

\* ------------------------------------------------------------------------
\* The loop of runBot and the presence check (src/index.js)
\* ------------------------------------------------------------------------
MaxIterations == 4  \* passes of the bot loop
MaxUsers == 2       \* largest count of active users the presence API reports

BOT_ACTION ==
    [NONE |-> 0, CREATE_RACE |-> 1, SET_PROBABILITIES |-> 2,
     SETTLE_RACE |-> 3, CANCEL_RACE |-> 4]

\* What the presence API can do: the fetch fails, the status is not ok, the
\* body has no activeUsers, or it has a count of users.
PresenceFailures == {"fetch failed", "not ok", "no activeUsers"}

PresenceResponses ==
    { [kind |-> k, activeUsers |-> Undefined] : k \in PresenceFailures }
        \cup { [kind |-> "count", activeUsers |-> n] : n \in 0..MaxUsers }

\* getActiveUsers(): data.activeUsers || 0, and 0 from the catch block
getActiveUsers(response) ==
    IF response.kind \in PresenceFailures THEN 0
    ELSE IF response.activeUsers = 0 THEN 0 ELSE response.activeUsers

\* executeCreateRace() up to its first await: giraffeRace.createRace() is called
CallCreateRace(b) == [b EXCEPT !.pc = "creating", !.executed = b.executed + 1]

\* A variant of the bot that creates the race as soon as its wait ends.
AfterWaitCreates(b) == CallCreateRace(b)

\* await waitForActiveUsers() has returned: continue, the next pass of the loop
AfterWait(b) == [b EXCEPT !.pc = "top", !.iteration = b.iteration + 1]

\* The head of the loop: getBlockNumber and getBotDashboard succeed; the
\* dashboard names one of the five actions, or an unknown one (5).
ReadDashboard(action) ==
    /\ bot.pc = "top"
    /\ bot' = [bot EXCEPT !.pc = "switch", !.action = action,
                          !.readAt = bot.iteration]
    /\ UNCHANGED << simVars, net >>

\* withRetry throws at the head of the loop: the catch block sleeps.
ReadFails ==
    /\ bot.pc = "top"
    /\ bot' = [bot EXCEPT !.pc = "sleep"]
    /\ UNCHANGED << simVars, net >>

\* case NONE, and default: sleep.  The case labelled BOT_ACTION.SET_ODDS
\* matches no action, BOT_ACTION having no SET_ODDS (abi.js), so that
\* SET_PROBABILITIES takes the default as an unknown action does.
NothingToDo ==
    /\ bot.pc = "switch"
    /\ bot.action \notin {BOT_ACTION.CREATE_RACE, BOT_ACTION.SETTLE_RACE,
                           BOT_ACTION.CANCEL_RACE}
    /\ bot' = [bot EXCEPT !.pc = "sleep"]
    /\ UNCHANGED << simVars, net >>

\* case SETTLE_RACE: executeSettleRace() runs, then the loop sleeps.
ExecuteSettleRace ==
    /\ bot.pc = "switch"
    /\ bot.action = BOT_ACTION.SETTLE_RACE
    /\ bot' = [bot EXCEPT !.pc = "sleep", !.executed = bot.executed + 1]
    /\ UNCHANGED << simVars, net >>

\* case CANCEL_RACE: executeCancelRace() returns await executeCreateRace()
ExecuteCancelRace ==
    /\ bot.pc = "switch"
    /\ bot.action = BOT_ACTION.CANCEL_RACE
    /\ bot' = CallCreateRace(bot)
    /\ UNCHANGED << simVars, net >>

\* case CREATE_RACE with skipPresenceCheck: executeCreateRace()
CreateUnchecked ==
    /\ bot.pc = "switch"
    /\ bot.action = BOT_ACTION.CREATE_RACE
    /\ bot.skipPresenceCheck
    /\ bot' = CallCreateRace(bot)
    /\ UNCHANGED << simVars, net >>

\* case CREATE_RACE without skipPresenceCheck: await getActiveUsers() returns;
\* on 0 waitForActiveUsers() begins, otherwise executeCreateRace().
CheckPresence(response) ==
    /\ bot.pc = "switch"
    /\ bot.action = BOT_ACTION.CREATE_RACE
    /\ ~bot.skipPresenceCheck
    /\ bot' = LET checked == [bot EXCEPT !.activeUsers = getActiveUsers(response),
                                         !.checkedAt = bot.iteration]
              IN  IF checked.activeUsers = 0
                  THEN [checked EXCEPT !.pc = "waiting"]
                  ELSE CallCreateRace(checked)
    /\ UNCHANGED << simVars, net >>

\* waitForActiveUsers(): await getActiveUsers() returns; on a count above 0
\* the wait ends, otherwise it sleeps and asks again.
PollPresence(response) ==
    /\ bot.pc = "waiting"
    /\ getActiveUsers(response) > 0 => bot.iteration < MaxIterations
    /\ bot' = LET polled == [bot EXCEPT !.waited = getActiveUsers(response)]
              IN  IF polled.waited > 0 THEN AfterWait(polled) ELSE polled
    /\ UNCHANGED << simVars, net >>

\* await giraffeRace.createRace() ends: it throws before a transaction is
\* sent, or the transaction is sent and then confirmed or not; the loop sleeps.
CreateRaceEnds(txSent) ==
    /\ bot.pc = "creating"
    /\ bot' = [bot EXCEPT !.pc = "sleep",
                          !.sent = IF txSent THEN bot.sent + 1 ELSE bot.sent]
    /\ UNCHANGED << simVars, net >>

\* await sleep(...) ends: break, and the next pass of the loop
SleepEnds ==
    /\ bot.pc = "sleep"
    /\ bot.iteration < MaxIterations
    /\ bot' = [bot EXCEPT !.pc = "top", !.iteration = bot.iteration + 1]
    /\ UNCHANGED << simVars, net >>

InitBot ==
    /\ InitSim("salted")
    /\ net = NoNet
    /\ \E skip \in BOOLEAN : bot = BotWith(skip)

NextBot ==
    \/ \E action \in 0..5 : ReadDashboard(action)
    \/ ReadFails
    \/ NothingToDo
    \/ ExecuteSettleRace
    \/ ExecuteCancelRace
    \/ CreateUnchecked
    \/ \E response \in PresenceResponses : CheckPresence(response)
    \/ \E response \in PresenceResponses : PollPresence(response)
    \/ \E txSent \in BOOLEAN : CreateRaceEnds(txSent)
    \/ SleepEnds

SpecBot == InitBot /\ [][NextBot]_vars

\* ------------------------------------------------------------------------
\* Properties of calculateProbabilities
\* ------------------------------------------------------------------------
\* scores is a sequence of exactly six elements
SixScores(a) == a.scores.isArray /\ Len(a.scores.items) = 6

\* samples > 0 as JavaScript compares (NaN is not)
Positive(v) == (v.kind = "finite" /\ v.twice > 0) \/ v.kind = "inf"

\* a valid call: six scores, an integer number of samples >= 1
ValidCall(a) == SixScores(a) /\ IsInteger(a.samples) /\ IntOf(a.samples) >= 1

RECURSIVE SumTo(_, _)
SumTo(f, n) == IF n = 0 THEN 0 ELSE f[n] + SumTo(f, n - 1)

\* a returned array: exactly six integers in [0,10000] ...
IsBpsArray(arr) ==
    /\ DOMAIN arr = 1..6
    /\ \A k \in 1..6 : IsInteger(arr[k]) /\ IntOf(arr[k]) >= 0 /\ IntOf(arr[k]) <= 10000

\* ... that sum to the target within 3 bps
SumsNear(arr, target) ==
    LET total == SumTo([k \in 1..6 |-> IntOf(arr[k])], 6)
    IN  total - target <= 3 /\ target - total <= 3

\* C1: a valid call (six scores, integer samples >= 1, any salt) returns
\* three arrays of exactly six integers in [0,10000] that sum to within 3 bps
\* of 10000, 20000 and 30000.
C1_BpsArrays ==
    ValidCall(args) =>
        /\ outcome # "threw"
        /\ outcome = "returned" =>
              /\ IsBpsArray(result.winProbBps) /\ SumsNear(result.winProbBps, 10000)
              /\ IsBpsArray(result.placeProbBps) /\ SumsNear(result.placeProbBps, 20000)
              /\ IsBpsArray(result.showProbBps) /\ SumsNear(result.showProbBps, 30000)

\* a valid call of several samples has returned, with a dead heat among the
\* races (a lane holds a quarter of a win over two samples, or the like)
C1_Witness ==
    /\ outcome = "returned"
    /\ ValidCall(args)
    /\ IntOf(args.samples) > 1
    /\ \E l \in Lanes : (IntOf(result.winProbBps[l]) * IntOf(args.samples)) % 10000 # 0

\* C2: after each simulation has been accumulated the win credits of the six
\* lanes sum to exactly the number of simulations accumulated, the place
\* credits to twice and the show credits to three times that number, for
\* every finish order the resolver produces (dead heats of any size).
C2_CreditConservation ==
    /\ SumTo([l \in Lanes |-> stats[l].winCredits], LANE_COUNT) = i * UNIT
    /\ SumTo([l \in Lanes |-> stats[l].placeCredits], LANE_COUNT) = 2 * i * UNIT
    /\ SumTo([l \in Lanes |-> stats[l].showCredits], LANE_COUNT) = 3 * i * UNIT

\* a run whose last race had one winner and a five-way dead heat behind it
C2_Witness ==
    /\ pc = "loop"
    /\ i = MaxRuns
    /\ FreeOutcomeUsed
    /\ finishOrder.first.count = 1
    /\ finishOrder.second.count = 5
    /\ \E l \in Lanes : stats[l].placeCredits % UNIT = 12

\* C3: two calls with identical scores, samples and salt return identical
\* winProbBps, placeProbBps and showProbBps, whatever happened in between.
C3_Determinism ==
    (outcome = "returned" /\ remembered.age = "earlier" /\ remembered.args = args) =>
        /\ result.winProbBps = remembered.winProbBps
        /\ result.placeProbBps = remembered.placeProbBps
        /\ result.showProbBps = remembered.showProbBps

\* the second of two equal calls of several samples has returned
C3_Witness ==
    /\ outcome = "returned"
    /\ remembered.age = "earlier"
    /\ remembered.args = args
    /\ args.samples = Fin(MaxSamples)
    /\ args.salt = MaxSalt
    /\ result.winProbBps = remembered.winProbBps
    /\ \E l \in Lanes : result.winProbBps[l] # Fin(0)

\* the claim's invalid arguments
InvalidArguments(a) == ~SixScores(a) \/ ~Positive(a.samples)

\* C4: a call whose scores are not a sequence of exactly six elements, or
\* whose samples is not greater than 0, fails with an argument error before
\* any seed is derived, any simulation is run or any tally is changed, and
\* returns no result.
C4_InvalidArgumentsFail ==
    [][(pc = "idle" /\ InvalidArguments(args')) =>
          /\ outcome' = "threw"
          /\ result' = NoResult
          /\ UNCHANGED << seedState, seeds, stats, i, race, t, finishOrder >>]_vars

\* C5: every score is clamped to an integer in [1,10] (non-finite or below 1
\* gives 1, above 10 gives 10, an integer in [1,10] stays); no call fails
\* because of a score's value; result.scores holds the six clamped scores in
\* lane order.
C5_ScoresClamped ==
    /\ outcome = "threw" => (~SixScores(args) \/ ~(IsFinite(args.samples) /\ Positive(args.samples)))
    /\ outcome = "returned" =>
          /\ DOMAIN result.scores = 1..6
          /\ \A k \in 1..6 :
                LET v == args.scores.items[k]
                    c == result.scores[k]
                IN  /\ c \in 1..10
                    /\ (~IsFinite(v) \/ v.twice < 2) => c = 1
                    /\ (IsFinite(v) /\ v.twice > 20) => c = 10
                    /\ (IsInteger(v) /\ IntOf(v) \in 1..10) => c = IntOf(v)

\* a call with scores 11, 4, 4, 4, 4.5, 4 has returned 10, 4, 4, 4, 4, 4
C5_Witness ==
    /\ outcome = "returned"
    /\ args.scores = ScoresB
    /\ result.scores = << 10, 4, 4, 4, 4, 4 >>

\* ------------------------------------------------------------------------
\* Properties of one call of accumulateStats
\* ------------------------------------------------------------------------
InBand(band, l) == \E k \in 1..Len(band.lanes) : band.lanes[k] = l

\* A step in which one finish order is accumulated, and what it adds.
Accumulated == i' = i + 1
WinGain(l) == stats'[l].winCredits - stats[l].winCredits
PlaceGain(l) == stats'[l].placeCredits - stats[l].placeCredits
ShowGain(l) == stats'[l].showCredits - stats[l].showCredits

\* The share of a band of the given count reached with rem slots left, and
\* the slots left after it.
ShareOf(rem, count) ==
    IF rem <= 0 \/ count = 0 THEN 0
    ELSE IF count <= rem THEN UNIT
    ELSE (rem * UNIT) \div count

SlotsAfter(rem, count) ==
    IF rem <= 0 THEN 0
    ELSE IF count <= rem THEN rem - count
    ELSE 0

\* C6: one call of accumulateStats adds exactly 1/first.count win credit to
\* every lane of the first band and no win credit to any other lane.
C6_WinRule ==
    [][Accumulated =>
        \A l \in Lanes :
            WinGain(l) = IF InBand(finishOrder.first, l)
                         THEN UNIT \div finishOrder.first.count
                         ELSE 0]_vars

\* a three-way tie for first has been accumulated on top of an earlier tally
C6_Witness ==
    /\ pc = "loop"
    /\ i = 3
    /\ finishOrder.first.lanes = << 2, 4, 5 >>
    /\ stats[2].winCredits = TallyAfter(2)[2].winCredits + 20
    /\ stats[1].winCredits = TallyAfter(2)[1].winCredits

C10_TwoWayTieForFirst ==
    [][(/\ Accumulated
        /\ finishOrder.first.count = 2
        /\ finishOrder.second.count = 1
        /\ finishOrder.third.count = 0) =>
        LET a == finishOrder.first.lanes[1]
            b == finishOrder.first.lanes[2]
            c == finishOrder.second.lanes[1]
        IN  /\ WinGain(a) = UNIT \div 2 /\ WinGain(b) = UNIT \div 2 /\ WinGain(c) = 0
            /\ PlaceGain(a) = UNIT /\ PlaceGain(b) = UNIT /\ PlaceGain(c) = 0
            /\ ShowGain(a) = UNIT /\ ShowGain(b) = UNIT /\ ShowGain(c) = UNIT
            /\ \A l \in Lanes \ {a, b, c} :
                  stats'[l] = stats[l]]_vars

\* lanes 1 and 2 (0 and 1 in the code) tie for first, lane 3 is second
C10_Witness ==
    /\ pc = "loop"
    /\ i = 1
    /\ finishOrder.first.lanes = << 1, 2 >>
    /\ finishOrder.second.lanes = << 3 >>
    /\ finishOrder.third.count = 0
    /\ stats[1].winCredits = 30 /\ stats[2].winCredits = 30 /\ stats[3].winCredits = 0
    /\ stats[1].placeCredits = 60 /\ stats[2].placeCredits = 60 /\ stats[3].placeCredits = 0
    /\ stats[1].showCredits = 60 /\ stats[2].showCredits = 60 /\ stats[3].showCredits = 60
    /\ stats[4] = ZeroStats[4]

\* C14: within one run the seeds derived for two different simulations are
\* different, and so are the generator states the simulations start from.
\* (Stated of the newest seed against every earlier one, in every state.)
C14_SeedsDiffer ==
    \A k \in 1..Len(seeds) : \A j \in 1..(k - 1) :
        k = Len(seeds) =>
            /\ seeds[j] # seeds[k]
            /\ RngCreate(seeds[j]) # RngCreate(seeds[k])

\* a run has derived MaxSeeds seeds
C14_Witness ==
    /\ pc = "loop"
    /\ i = MaxSeeds
    /\ Len(seeds) = MaxSeeds
    /\ seeds[1] # seeds[MaxSeeds]
    /\ args.salt = MaxSalt

\* ------------------------------------------------------------------------
\* Properties of the finish-order resolver
\* ------------------------------------------------------------------------
\* The band a lane is put in: 1, 2, 3 for first, second, third, 4 for none.
BandRank(fo, l) ==
    IF InBand(fo.first, l) THEN 1
    ELSE IF InBand(fo.second, l) THEN 2
    ELSE IF InBand(fo.third, l) THEN 3
    ELSE 4

\* finishOrder is the resolver's answer to race.finishTimes, race.distances
Resolved == outcome = "running" /\ pc = "loop" /\ i > 0

\* C11: a lane whose finish time is the unfinished sentinel is never in an
\* earlier band than, nor in the same band as, a lane with a recorded finish
\* time.
C11_UnfinishedSortsLast ==
    Resolved =>
        \A u \in Lanes, f \in Lanes :
            (race.finishTimes[u] = UNFINISHED /\ race.finishTimes[f] # UNFINISHED) =>
                /\ ~(BandRank(finishOrder, u) < BandRank(finishOrder, f))
                /\ ~(BandRank(finishOrder, u) = BandRank(finishOrder, f)
                       /\ BandRank(finishOrder, u) <= 3)

\* C12: a race that ends at the tick limit with unfinished lanes is resolved
\* without error, and of two unfinished lanes the one with the greater
\* final distance is in an earlier band.
C12_UnfinishedRankByDistance ==
    /\ outcome # "threw"
    /\ Resolved =>
          \A u \in Lanes, v \in Lanes :
              (/\ race.finishTimes[u] = UNFINISHED
               /\ race.finishTimes[v] = UNFINISHED
               /\ race.distances[u] > race.distances[v]) =>
                  BandRank(finishOrder, u) < BandRank(finishOrder, v)

\* The set of lanes of a band
LanesIn(band) == { band.lanes[k] : k \in 1..Len(band.lanes) }

BandsOf(fo) == { LanesIn(fo.first), LanesIn(fo.second), LanesIn(fo.third) }

\* C16: the first band is not empty; the three bands are pairwise disjoint;
\* the lanes of one band have the same finish time; every lane whose finish
\* time is that of a band's lanes is in the band; finish times strictly
\* increase from the first to the second to the third band; no lane outside
\* the bands has a smaller finish time than a lane inside them.
C16_BandsWellFormed ==
    Resolved =>
        LET time == race.finishTimes
            F == LanesIn(finishOrder.first)
            S == LanesIn(finishOrder.second)
            T == LanesIn(finishOrder.third)
        IN  /\ F # {}
            /\ F \cap S = {} /\ F \cap T = {} /\ S \cap T = {}
            /\ \A B \in BandsOf(finishOrder) : \A a \in B :
                  /\ \A b \in B : time[a] = time[b]
                  /\ \A l \in Lanes : time[l] = time[a] => l \in B
            /\ \A a \in F : \A b \in S \cup T : time[a] < time[b]
            /\ \A a \in S : \A b \in T : time[a] < time[b]
            /\ \A l \in Lanes \ (F \cup S \cup T) : \A a \in F \cup S \cup T :
                  ~(time[l] < time[a])

\* all three bands are filled, one of them by a tie, and lanes are left over
C16_Witness ==
    /\ Resolved
    /\ finishOrder.first.count = 1
    /\ finishOrder.second.count = 1
    /\ finishOrder.third.count = 2
    /\ \E l \in Lanes : BandRank(finishOrder, l) = 4

\* The sorted position at which the tie group of lane l starts: the number of
\* lanes that finished strictly before it.
GroupStart(time, l) == Cardinality({ m \in Lanes : time[m] < time[l] })

\* C17: a tie group goes wholly to the rank at which it starts: the first
\* band is the group starting at sorted position 0, the second band the one
\* starting at position 1, the third band the one starting at position 2,
\* and a group starting at position 3 or later is in no band; when three or
\* more lanes tie for first, the second and third bands are empty, count 0.
C17_GroupTakesEarliestRank ==
    Resolved =>
        /\ \A l \in Lanes :
              BandRank(finishOrder, l) =
                  IF GroupStart(race.finishTimes, l) < 3
                  THEN GroupStart(race.finishTimes, l) + 1
                  ELSE 4
        /\ finishOrder.first.count = Cardinality(LanesIn(finishOrder.first))
        /\ finishOrder.second.count = Cardinality(LanesIn(finishOrder.second))
        /\ finishOrder.third.count = Cardinality(LanesIn(finishOrder.third))
        /\ finishOrder.first.count >= 3 =>
              /\ finishOrder.second = EmptyBand
              /\ finishOrder.third = EmptyBand

\* three lanes tie for first and the others are in no band
C17_Witness ==
    /\ Resolved
    /\ finishOrder.first.count = 3
    /\ finishOrder.second.count = 0
    /\ finishOrder.third.count = 0
    /\ \E l \in Lanes : \E m \in Lanes :
          /\ BandRank(finishOrder, l) = 4 /\ BandRank(finishOrder, m) = 4
          /\ race.finishTimes[l] # race.finishTimes[m]

\* ------------------------------------------------------------------------
\* Properties of scoreBps
\* ------------------------------------------------------------------------
\* C13: bias(1) = 9585 and bias(10) = 10000; the bias of a score in 1..10 is
\* 9585 + floor((score - 1) * 415 / 9); the bias does not decrease when a
\* (finite) score grows; no input gives a bias outside [9585, 10000].
C13_BiasMapping ==
    pc = "biased" =>
        \A a \in Lanes :
            LET v == args.scores.items[a]
            IN  /\ bps[a] >= 9585 /\ bps[a] <= 10000
                /\ v = Fin(1) => bps[a] = 9585
                /\ v = Fin(10) => bps[a] = 10000
                /\ (IsInteger(v) /\ IntOf(v) \in 1..10) =>
                      bps[a] = 9585 + (((IntOf(v) - 1) * 415) \div 9)
                /\ \A b \in Lanes :
                      LET w == args.scores.items[b]
                      IN  (IsFinite(v) /\ IsFinite(w) /\ v.twice <= w.twice) =>
                              bps[a] <= bps[b]

\* the bias of the scores 1 and 10 has been computed
C13_Witness ==
    /\ pc = "biased"
    /\ args.scores.items[1] = Fin(1)
    /\ args.scores.items[2] = Fin(10)
    /\ bps[1] = 9585
    /\ bps[2] = 10000

\* ------------------------------------------------------------------------
\* Properties of the tick loop
\* ------------------------------------------------------------------------
\* a step that executes a tick; a step that leaves the tick loop
TickTaken == t' = t + 1
LoopLeft == pc = "race" /\ pc' = "loop"

AllReached(dist, d) == \A a \in Lanes : dist[a] >= d

\* C15: the tick loop executes at most 500 ticks; it stops before a tick
\* exactly when all six distances have reached 1010; a run with a finite
\* sample count terminates and returns a result.
C15_Terminates ==
    /\ [](t <= 500)
    /\ [][/\ TickTaken => (t < 500 /\ ~AllReached(race.distances, 1010))
          /\ LoopLeft => (t = 500 \/ AllReached(race.distances, 1010))]_vars
    /\ (outcome = "running" ~> outcome = "returned")

\* a race has been stopped by the tick limit with lanes short of 1010
C15_Witness ==
    /\ pc = "loop"
    /\ i = 1
    /\ t = MAX_TICKS
    /\ \E a \in Lanes : race.distances[a] < 1010
    /\ \E a \in Lanes : race.finishTimes[a] = UNFINISHED

\* the units lane a moves in this step
StepOf(a) == race'.distances[a] - race.distances[a]

\* C18: in every tick each of the six lanes, finished or not, moves by a
\* whole number of units from 1 to 10, never by zero, whatever the score in
\* 1..10 and the two draws are; after k ticks every lane's distance lies
\* between k and 10k.
C18_StepRange ==
    /\ [](\A sc \in 1..10 : \A b \in 1..SPEED_RANGE :
            LET raw == b * scoreBps(Fin(sc))
                rem == raw % BPS_SCALE
            IN  \A pick \in {0, rem - 1, rem, BPS_SCALE - 1} \cap (0..(BPS_SCALE - 1)) :
                    LaneSpeed(raw, [NoRace.rng EXCEPT !.s0 = Word(pick)])
                        \in 1..SPEED_RANGE)
    /\ [](pc = "race" =>
            \A a \in Lanes : /\ t <= race.distances[a]
                             /\ race.distances[a] <= SPEED_RANGE * t)
    /\ [][TickTaken => \A a \in Lanes : StepOf(a) \in 1..SPEED_RANGE]_vars

\* a lane that has crossed the line has kept moving while another has not
\* arrived yet
C18_Witness ==
    /\ pc = "race" /\ t > 0
    /\ \E a \in Lanes : \E b \in Lanes :
          /\ race.finishTimes[a] # UNFINISHED
          /\ race.distances[a] > finishLine
          /\ race.distances[b] < TRACK_LENGTH

\* The draws of a lane replayed from the generator g it finds: the base step
\* is the first draw from [0, 10) plus one, the second draw is from [0, 10000).
BaseStepFrom(g) == Mod32(RngNext(g).s0, SPEED_RANGE) + 1
SecondDrawFrom(g) == Mod32(RngNext(RngNext(g)).s0, BPS_SCALE)
RemainderFrom(g, B) == (BaseStepFrom(g) * B) % BPS_SCALE

\* floor(b * B / 10000), plus one exactly when rem # 0 and the second draw is
\* strictly less than rem
RoundedStepFrom(g, B) ==
    (BaseStepFrom(g) * B) \div BPS_SCALE
        + (IF RemainderFrom(g, B) # 0 /\ SecondDrawFrom(g) < RemainderFrom(g, B)
           THEN 1 ELSE 0)

\* The generator a lane leaves: one draw taken, and a second one if and only
\* if the remainder is not zero.
GenAfterLane(g, B) ==
    IF RemainderFrom(g, B) # 0 THEN RngNext(RngNext(g)) ELSE RngNext(g)

\* The generator lane a finds in a tick that starts with generator g, the
\* lanes being served in index order.
RECURSIVE GenBeforeLane(_, _, _)
GenBeforeLane(g, a, B) ==
    IF a = 1 THEN g
    ELSE CHOOSE r \in { GenAfterLane(h, B[a - 1]) :
                          h \in {GenBeforeLane(g, a - 1, B)} } : TRUE

RoundedStepOf(a) == RoundedStepFrom(GenBeforeLane(race.rng, a, bps), bps[a])

\* C19 as stated: the step of a lane is floor(b * B / 10000) plus one extra
\* unit exactly when rem # 0 and the second draw is below rem, and exactly
\* floor(b * B / 10000) in all other cases.
C19_RoundedStepOnly ==
    [][TickTaken => \A a \in Lanes : StepOf(a) = RoundedStepOf(a)]_vars

\* C19 amended: the step of a lane is floor(b * B / 10000) plus one extra
\* unit exactly when rem # 0 and the second draw is below rem, except that a
\* result of zero is replaced by a step of 1.
C19_RoundedStepAtLeastOne ==
    [][TickTaken => \A a \in Lanes :
          StepOf(a) = IF RoundedStepOf(a) > 0 THEN RoundedStepOf(a) ELSE 1]_vars

\* a tick is about to run in which one lane gets the extra unit, one lane is
\* rounded down and one lane's rounded step is zero
C19_Witness ==
    /\ pc = "race" /\ t > 0 /\ t < MAX_TICKS /\ ~allFinished(race.distances)
    /\ \E a \in Lanes :
          LET g == GenBeforeLane(race.rng, a, bps)
          IN  RemainderFrom(g, bps[a]) # 0 /\ SecondDrawFrom(g) < RemainderFrom(g, bps[a])
    /\ \E a \in Lanes :
          LET g == GenBeforeLane(race.rng, a, bps)
          IN  /\ RemainderFrom(g, bps[a]) # 0
              /\ ~(SecondDrawFrom(g) < RemainderFrom(g, bps[a]))
              /\ RoundedStepOf(a) > 0
    /\ \E a \in Lanes : RoundedStepOf(a) = 0

RaceStarted == pc = "loop" /\ pc' = "race"

\* C20: the generator of a simulation is advanced 20 times when it is made
\* and after that only by the lanes' draws: in every tick the lanes draw in
\* index order, each lane once for its base step and a second time if and
\* only if its remainder is not zero, lanes that have crossed the line
\* included; nothing else draws.
C20_DrawOrder ==
    /\ [][RaceStarted =>
            race'.rng = RngAdvance(RngSeeded(seeds'[Len(seeds')]), WARMUP)]_vars
    /\ [][TickTaken =>
            /\ race'.rng = GenBeforeLane(race.rng, LANE_COUNT + 1, bps)
            /\ \A a \in Lanes :
                  StepOf(a) = LaneSpeed(BaseStepFrom(GenBeforeLane(race.rng, a, bps)) * bps[a],
                                        GenBeforeLane(race.rng, a + 1, bps))]_vars
    /\ [][LoopLeft => race'.rng = race.rng]_vars

\* a tick is about to run in which a lane that has crossed the line draws, a
\* lane with remainder zero skips the second draw and another lane takes it
C20_Witness ==
    /\ pc = "race" /\ t > 0 /\ t < MAX_TICKS /\ ~allFinished(race.distances)
    /\ \E a \in Lanes : race.finishTimes[a] # UNFINISHED
    /\ \E a \in Lanes : RemainderFrom(GenBeforeLane(race.rng, a, bps), bps[a]) = 0
    /\ \E a \in Lanes : RemainderFrom(GenBeforeLane(race.rng, a, bps), bps[a]) # 0

\* ------------------------------------------------------------------------
\* Properties of the finish times
\* ------------------------------------------------------------------------
\* lane a goes from below 1000 to at least 1000 in this step
CrossesNow(a) == race.distances[a] < 1000 /\ race'.distances[a] >= 1000

\* C21: a lane's finish time is written once, in the tick t in which its
\* distance first goes from below 1000 to at least 1000, with the value
\* t * 10000 + floor((1000 - priorDistance) * 10000 / step); no later tick
\* changes it, and it is the sentinel while the distance is below 1000.
C21_FinishTimeWrittenOnce ==
    /\ [][TickTaken => \A a \in Lanes :
            IF CrossesNow(a)
            THEN /\ race.finishTimes[a] = UNFINISHED
                 /\ race'.finishTimes[a] =
                        t * 10000 + ((1000 - race.distances[a]) * 10000) \div StepOf(a)
            ELSE race'.finishTimes[a] = race.finishTimes[a]]_vars
    /\ [][LoopLeft => race'.finishTimes = race.finishTimes]_vars
    /\ [](pc = "race" => \A a \in Lanes :
            race.distances[a] < 1000 => race.finishTimes[a] = UNFINISHED)

\* a lane crossed at least two ticks ago and has moved on, another lane has
\* not crossed yet
C21_Witness ==
    /\ pc = "race"
    /\ \E a \in Lanes : \E b \in Lanes :
          /\ race.finishTimes[a] # UNFINISHED
          /\ race.finishTimes[a] \div 10000 < t - 2
          /\ race.distances[a] > 1000
          /\ race.distances[b] < 1000
          /\ race.finishTimes[b] = UNFINISHED

\* The prior distances and steps with which a lane crosses the 1000 threshold
Crossings ==
    { c \in ((1000 - SPEED_RANGE)..999) \X (1..SPEED_RANGE) : c[1] + c[2] >= 1000 }

MaxTickGap == 2

\* C22: a lane that crosses the 1000 threshold in an earlier tick than
\* another has the strictly lower finish time, whatever the prior distances
\* and the steps in 1..10 are, a lane that lands exactly on 1000 included.
C22_EarlierTickLowerTime ==
    /\ [](\A t1 \in 0..MaxTickGap : \A t2 \in (t1 + 1)..MaxTickGap :
            \A x \in Crossings : \A y \in Crossings :
                FinishTimeAt(t1, x[1], x[2]) < FinishTimeAt(t2, y[1], y[2]))
    /\ [][TickTaken => \A x \in Lanes : \A y \in Lanes :
            (race.finishTimes[x] # UNFINISHED /\ CrossesNow(y)) =>
                race'.finishTimes[x] < race'.finishTimes[y]]_vars

\* a lane landed exactly on 1000 and another lane crossed in the next tick
C22_Witness ==
    /\ pc = "race"
    /\ \E x \in Lanes : \E y \in Lanes :
          /\ race.finishTimes[x] # UNFINISHED
          /\ race.finishTimes[x] % 10000 = 0
          /\ race.finishTimes[y] # UNFINISHED
          /\ race.finishTimes[x] < race.finishTimes[y]
          /\ race.finishTimes[y] < race.finishTimes[x] + 10000

\* ------------------------------------------------------------------------
\* Properties of the sample loop
\* ------------------------------------------------------------------------
\* One score mixed into the sequencer: the xor, then one advance.
MixOne(x, score) == SplitmixStep(Xor32(x, Imul(Word(score), K_MIX1)))

CallAccepted == pc = "idle" /\ pc' = "loop"
CallReturned == pc = "loop" /\ pc' = "idle"

\* C23: before the first simulation the seed sequencer is advanced once for
\* each of the six clamped scores, in lane order; then every iteration derives
\* one seed, simulates, resolves and accumulates, in that order; iteration
\* i + 1 derives its seed only when iteration i has accumulated; a call with
\* an integer number of samples makes exactly that many iterations.
C23_Sequencing ==
    /\ [][CallAccepted =>
            LET cs == clampedScores'
                x0 == SeedOrigin(variant, args'.salt, 0)
            IN  /\ seedState' = MixOne(MixOne(MixOne(MixOne(MixOne(MixOne(
                                    x0, cs[1]), cs[2]), cs[3]), cs[4]), cs[5]), cs[6])
                /\ i' = 0 /\ seeds' = << >>]_vars
    /\ [](outcome = "running" =>
            /\ pc \in {"loop", "race"}
            /\ pc = "loop" => Len(seeds) = i
            /\ pc = "race" => Len(seeds) = i + 1)
    /\ [][RaceStarted =>
            /\ seedState' = SplitmixStep(seedState)
            /\ seeds' = Append(seeds, SplitmixOut(seedState'))
            /\ t' = 0 /\ race'.distances = [l \in Lanes |-> 0]
            /\ UNCHANGED << i, stats >>]_vars
    /\ [][TickTaken => UNCHANGED << i, stats, seedState, seeds >>]_vars
    /\ [][LoopLeft =>
            /\ finishOrder' = calculateFinishOrder(race.finishTimes, race.distances)
            /\ stats' = accumulateStats(stats, finishOrder')
            /\ i' = i + 1
            /\ UNCHANGED << seedState, seeds >>]_vars
    /\ [][(CallReturned /\ ValidCall(args)) =>
            i = IntOf(args.samples) /\ Len(seeds) = IntOf(args.samples)]_vars

\* the last of several iterations has accumulated and the call is about to
\* return
C23_Witness ==
    /\ pc = "loop" /\ outcome = "running"
    /\ args.samples = Fin(MaxSamples)
    /\ i = MaxSamples /\ Len(seeds) = MaxSamples
    /\ \E l \in Lanes : stats[l].winCredits > 0

\* v is the integer k with k <= x + 1/2 < k + 1 for x = 10000 * credits / n,
\* credits being in tally units; it is less than one unit away from x.
NearestHalfUp(v, credits, n) ==
    /\ IsInteger(v)
    /\ LET k == IntOf(v)
           num == credits * BPS_SCALE
           den == UNIT * n
       IN  /\ 2 * k * den <= 2 * num + den
           /\ 2 * num + den < 2 * (k + 1) * den
           /\ (k - 1) * den < num /\ num < (k + 1) * den

\* C24: every returned basis-point value is the integer nearest to
\* 10000 * credit / samples of its lane and tier, an exact half being rounded
\* up in all eighteen values; it is less than one unit away from the
\* quotient.
C24_NearestBps ==
    [][(CallReturned /\ ValidCall(args)) =>
          \A l \in Lanes :
              LET n == IntOf(args.samples)
              IN  /\ NearestHalfUp(result'.winProbBps[l], stats[l].winCredits, n)
                  /\ NearestHalfUp(result'.placeProbBps[l], stats[l].placeCredits, n)
                  /\ NearestHalfUp(result'.showProbBps[l], stats[l].showCredits, n)]_vars

\* a run of 8 samples has returned a value v with 2v - 1 a multiple of 125:
\* the quotient is 125/6 times the tally in sixtieths, so it was v - 1/2
\* exactly and has been rounded up
C24_Witness ==
    /\ outcome = "returned"
    /\ args.samples = Fin(MaxCount)
    /\ \E l \in Lanes : (2 * IntOf(result.winProbBps[l]) - 1) % 125 = 0

\* ------------------------------------------------------------------------
\* Properties of the tallies across a run
\* ------------------------------------------------------------------------
\* C25: the tallies of all six lanes are 0 when a run starts; an accumulation
\* adds to each tier of a lane an amount from 0 to 1 and leaves the tallies
\* of a lane that is in none of the three bands as they are; no other step
\* of the run changes a tally, so the tallies never decrease.
C25_TalliesGrow ==
    /\ [][CallAccepted => stats' = ZeroStats]_vars
    /\ [][LoopLeft => \A l \in Lanes :
            /\ WinGain(l) \in 0..UNIT
            /\ PlaceGain(l) \in 0..UNIT
            /\ ShowGain(l) \in 0..UNIT
            /\ BandRank(finishOrder', l) = 4 => stats'[l] = stats[l]]_vars
    /\ [][(outcome = "running" /\ outcome' = "running" /\ ~LoopLeft) =>
            stats' = stats]_vars

\* the second race of a run is accumulated: a lane outside its bands keeps
\* the credits of the first race, a lane in a dead heat has got a fraction
C25_Witness ==
    /\ pc = "loop" /\ outcome = "running" /\ i = 2
    /\ \E l \in Lanes : BandRank(finishOrder, l) = 4 /\ stats[l].winCredits > 0
    /\ \E l \in Lanes : BandRank(finishOrder, l) = 3 /\ stats[l].showCredits % UNIT # 0

\* ------------------------------------------------------------------------
\* Properties of one simulation within a run
\* ------------------------------------------------------------------------
\* The race after at most c more ticks from tick k on, as a function of its
\* state and the biases.
RECURSIVE TicksFrom(_, _, _, _)
TicksFrom(s, k, c, B) ==
    IF c = 0 \/ ~(k < MAX_TICKS) \/ allFinished(s.distances) THEN s
    ELSE CHOOSE r \in { TicksFrom(n, k + 1, c - 1, B) :
                          n \in {MoveLanes(s, 1, k, B, TRUE)} } : TRUE

\* The race run from tick k on to its end, sixteen ticks at a time.
RECURSIVE RaceFrom(_, _, _)
RaceFrom(s, k, B) ==
    IF ~(k < MAX_TICKS) \/ allFinished(s.distances) THEN s
    ELSE CHOOSE r \in { RaceFrom(n, k + 16, B) :
                          n \in {TicksFrom(s, k, 16, B)} } : TRUE

\* The finish order of a race as a function of its seed and the scores.
OrderFrom(seed, cs) ==
    CHOOSE fo \in
        { calculateFinishOrder(s.finishTimes, s.distances) :
            s \in { RaceFrom([rng |-> RngCreate(seed),
                              distances |-> [l \in Lanes |-> 0],
                              finishTimes |-> [l \in Lanes |-> UNFINISHED]],
                             0, BpsOf(cs)) } } : TRUE

\* C26: a simulation and the resolution of its finish order change neither
\* the seed sequencer nor the clamped scores, and the tallies only by what
\* is accumulated for its finish order; the generator of a simulation is
\* created from the seed of that simulation, whatever the generator of the
\* simulation before has come to; the finish order of a simulation is a
\* function of its seed and the scores alone.
C26_OnlySequencerCarriesState ==
    /\ [][RaceStarted =>
            /\ race'.rng = RngCreate(seeds'[Len(seeds')])
            /\ UNCHANGED << clampedScores, stats >>]_vars
    /\ [][TickTaken => UNCHANGED << seedState, clampedScores, stats, seeds >>]_vars
    /\ [][LoopLeft =>
            /\ UNCHANGED << seedState, clampedScores, seeds >>
            /\ finishOrder' = OrderFrom(seeds[Len(seeds)], clampedScores)
            /\ stats' = accumulateStats(stats, finishOrder')]_vars

\* the second simulation of a run has been resolved, the generator of the
\* first having been left in another state than the second began with
C26_Witness ==
    /\ pc = "loop" /\ outcome = "running" /\ i = 2 /\ Len(seeds) = 2
    /\ seeds[1] # seeds[2]
    /\ finishOrder = OrderFrom(seeds[2], clampedScores)
    /\ finishOrder # OrderFrom(seeds[1], clampedScores)

\* C27: after any number of accumulations every lane's win credit is at most
\* its place credit and its place credit at most its show credit; in every
\* result winProbBps[l] <= placeProbBps[l] <= showProbBps[l] for each lane.
C27_WinPlaceShowOrdered ==
    /\ outcome = "running" =>
          \A l \in Lanes : /\ stats[l].winCredits <= stats[l].placeCredits
                           /\ stats[l].placeCredits <= stats[l].showCredits
    /\ outcome = "returned" =>
          \A l \in Lanes :
              /\ IsInteger(result.winProbBps[l])
              /\ IsInteger(result.placeProbBps[l])
              /\ IsInteger(result.showProbBps[l])
              /\ IntOf(result.winProbBps[l]) <= IntOf(result.placeProbBps[l])
              /\ IntOf(result.placeProbBps[l]) <= IntOf(result.showProbBps[l])

\* a run of several samples has returned; one lane has won some, placed
\* more and shown more still, another has the same in all three tiers
C27_Witness ==
    /\ outcome = "returned"
    /\ args.samples = Fin(MaxCount)
    /\ \E l \in Lanes :
          /\ 0 < IntOf(result.winProbBps[l])
          /\ IntOf(result.winProbBps[l]) < IntOf(result.placeProbBps[l])
          /\ IntOf(result.placeProbBps[l]) < IntOf(result.showProbBps[l])
    /\ \E l \in Lanes :
          /\ 0 < IntOf(result.winProbBps[l])
          /\ result.winProbBps[l] = result.placeProbBps[l]
          /\ result.placeProbBps[l] = result.showProbBps[l]

\* C28: throughout a simulation and at its end a lane's finish time is the
\* sentinel -1 exactly when the lane's distance is below 1000; when the tick
\* loop ends because all six distances have reached 1010, all six lanes have
\* a recorded finish time.
C28_SentinelIffBelowTrack ==
    /\ []((pc = "race" \/ Resolved) =>
            \A a \in Lanes :
                (race.finishTimes[a] = 0 - 1) <=> (race.distances[a] < 1000))
    /\ [][(LoopLeft /\ AllReached(race.distances, 1010)) =>
            \A a \in Lanes : race'.finishTimes[a] # 0 - 1]_vars

\* a race has ended before the tick limit with all six lanes recorded, one
\* of them having landed exactly on 1000
C28_Witness ==
    /\ Resolved /\ t < MAX_TICKS
    /\ AllReached(race.distances, 1010)
    /\ \A a \in Lanes : race.finishTimes[a] # UNFINISHED
    /\ \E a \in Lanes : race.finishTimes[a] % 10000 = 0

\* ------------------------------------------------------------------------
\* Properties of withRetry
\* ------------------------------------------------------------------------
\* the calls of fn that failed, and the number of runs of maxRetries failed
\* calls that were followed by a switch of the provider: every run but the
\* last one
Failures == IF net.phase = "returned" THEN net.calls - 1 ELSE net.calls

RunsSwitched ==
    IF Failures \div net.maxRetries < net.totalProviders - 1
    THEN Failures \div net.maxRetries
    ELSE net.totalProviders - 1

FnCalled == net'.calls = net.calls + 1

\* C29: withRetry(fn, maxRetries) calls fn at most providers.length *
\* maxRetries times; it returns the result of the call that succeeds, the
\* calls before it having failed, and calls fn no more; the provider is
\* switched to (index + 1) % providers.length exactly by the failure that
\* ends a run of maxRetries failures other than the last run; when every call
\* fails it throws the error of the last call, after exactly providers.length
\* * maxRetries calls; currentProviderIndex stays in 0..providers.length - 1.
\* (With maxRetries = 0 fn is never called, the value thrown is undefined and
\* the provider is switched providers.length - 1 times.)
C29_WithRetry ==
    /\ [](net.calls <= net.totalProviders * net.maxRetries)
    /\ [](net.currentProviderIndex \in 0..(net.totalProviders - 1))
    /\ [](net.phase = "returned" =>
            /\ net.returned = net.calls
            /\ net.lastError = (IF net.calls = 1 THEN Undefined ELSE net.calls - 1)
            /\ net.thrown = Undefined)
    /\ [](net.phase = "threw" =>
            /\ net.calls = net.totalProviders * net.maxRetries
            /\ net.thrown = net.lastError
            /\ net.calls > 0 => net.thrown = net.calls
            /\ net.returned = Undefined)
    /\ [](net.maxRetries >= 1 =>
            net.currentProviderIndex =
                (net.startIndex + RunsSwitched) % net.totalProviders)
    /\ [][FnCalled => net.phase = "calling"]_vars
    /\ [][net.phase \in {"returned", "threw"} => ~FnCalled]_vars
    /\ [][(net'.maxRetries >= 1 /\ net'.currentProviderIndex # net.currentProviderIndex) =>
            /\ FnCalled
            /\ net'.phase = "switchSleep"
            /\ net'.calls % net'.maxRetries = 0
            /\ net'.calls < net.totalProviders * net'.maxRetries
            /\ net'.currentProviderIndex =
                   (net.currentProviderIndex + 1) % net.totalProviders]_vars
    /\ [][(/\ net'.maxRetries >= 1
           /\ FnCalled
           /\ net'.phase # "returned"
           /\ net'.calls % net'.maxRetries = 0
           /\ net'.calls < net.totalProviders * net'.maxRetries) =>
            net'.currentProviderIndex =
                (net.currentProviderIndex + 1) % net.totalProviders]_vars
    /\ [](net.maxRetries = 0 /\ net.phase = "threw" =>
            /\ net.thrown = Undefined
            /\ net.currentProviderIndex =
                   (net.startIndex + net.totalProviders - 1) % net.totalProviders)

\* every call failed, with the most providers and retries, in a call of
\* withRetry that began at a provider other than the first
C29_Witness ==
    /\ net.phase = "threw"
    /\ net.totalProviders = MaxProviders
    /\ net.maxRetries = MaxRetries
    /\ net.calls = MaxProviders * MaxRetries
    /\ net.thrown = net.calls
    /\ net.startIndex # 0
    /\ net.currentProviderIndex = (net.startIndex + MaxProviders - 1) % MaxProviders

\* ------------------------------------------------------------------------
\* Properties of the bot loop
\* ------------------------------------------------------------------------
PresenceChecked == ~bot.skipPresenceCheck

CreateRaceCalled == bot'.pc = "creating" /\ bot.pc # "creating"

Executed == bot'.executed # bot.executed

TxSent == bot'.sent # bot.sent

=========================================================================
